---- MODULE Spec2Model ----
(***************************************************************************)
(* NutriTrackAI: the SQL entry store (src/src/database/operations.py), the *)
(* daily nutrition analysis (src/src/analytics/nutrition_analyzer.py), the *)
(* chatbot's analyze command (src/src/chatbot/message_handler.py), the     *)
(* document store (src/src/database/mongo_operations.py) and the dashboard *)
(* (src/app.py).                                                           *)
(*                                                                         *)
(* A run is a run of one of the two programs of the repository: the        *)
(* chatbot (prog = "cli"), which logs into the SQL store and analyses a    *)
(* day, or the dashboard (prog = "dashboard"), which logs into the         *)
(* document store and renders a day.                                       *)
(*                                                                         *)
(* The functions of the library that the chatbot calls or offers           *)
(* (get_weekly_trend of nutrition_analyzer.py, parse_date of               *)
(* utils/date_helpers.py, is_food_entry and parse_food_input of            *)
(* utils/food_parser.py) have specifications of their own, SpecTrend,      *)
(* SpecDate and SpecFood, in which a call is made on an argument and its   *)
(* return value is kept.  So have extract_portion_info (SpecPortion), the  *)
(* nutrition oracle of api/openai_client.py (SpecOracle), the chatbot's    *)
(* food-entry handler (SpecEntry), the SQL store written and read over     *)
(* several calls (SpecStore), the FoodEntry dataclass of                   *)
(* database/models.py (SpecModels) and get_monthly_summary of the document *)
(* store (SpecMonth).                                                      *)
(*                                                                         *)
(* Python values: None is the empty tuple <<>>, the number n is <<n>>, and *)
(* a dict is a function whose DOMAIN is its set of keys, so a missing key  *)
(* and a key holding None are different things, as in the code.            *)
(***************************************************************************)
EXTENDS Integers, Sequences, FiniteSets, TLC

VARIABLES
    prog,              \* which program runs: "cli" or "dashboard"
    food_entries,      \* the rows of the SQL table food_entries, by rowid
    entries,           \* _generate_analysis: the entries it fetched
    user_metrics,      \* analyze_daily_nutrition: the metrics row it read
    response,          \* the chatbot's answer to the last message
    food_collection,   \* the documents of the food collection
    users_collection,  \* the daily summary documents, by date
    dashboard,         \* what the last run of the dashboard script did
    today,             \* the last reading of date.today()
    call,              \* the last call of a function of the library: its arguments
    returned           \* what that call returned or raised

vars == <<prog, food_entries, entries, user_metrics, response, food_collection,
          users_collection, dashboard, today, call, returned>>

\* The variables of the calls of the library functions.
library == <<today, call, returned>>

(***************************************************************************)
(* Bounds of the model.                                                    *)
(***************************************************************************)
MaxEntries == 2

MaxGrams == 4

Days == {1, 2}

None == <<>>

Num(n) == <<n>>

Val(v) == v[1]

(***************************************************************************)
(* The clock.  datetime.now() is the local wall clock: an instant is a     *)
(* calendar day and a time of day down to the millisecond, and two         *)
(* readings need not be in order.  The instants are the ones on both sides *)
(* of the hour cutoffs of the meal buckets on the first day, and the ones  *)
(* on both sides of the midnights.                                         *)
(***************************************************************************)
TimesOfDay ==
    { <<0, 0, 0, 0>>, <<9, 59, 59, 500>>, <<10, 0, 0, 0>>, <<13, 59, 59, 0>>,
      <<14, 0, 0, 0>>, <<17, 59, 59, 0>>, <<18, 0, 0, 0>>, <<23, 59, 59, 500>> }

Midnights == { <<0, 0, 0, 0>>, <<23, 59, 59, 500>> }

Instants ==
    { [day |-> d, hour |-> t[1], minute |-> t[2], second |-> t[3], ms |-> t[4]] :
        d \in Days, t \in TimesOfDay } \
    { [day |-> d, hour |-> t[1], minute |-> t[2], second |-> t[3], ms |-> t[4]] :
        d \in Days \ {1}, t \in TimesOfDay \ Midnights }

(***************************************************************************)
(* Nutrition records, as the oracle or a caller of the store can supply    *)
(* them: every field null (the oracle's failure record), every field       *)
(* present (one of them 0), every field 0, and a record with missing keys  *)
(* and a null.                                                             *)
(***************************************************************************)
Nutrients ==
    <<"calories", "protein", "carbohydrates", "fat", "fiber", "sugar", "sodium">>

NutrientSet == { Nutrients[i] : i \in 1..Len(Nutrients) }

_get_default_nutrition_data == [k \in NutrientSet |-> None]

FullRecord ==
    [calories |-> Num(3), protein |-> Num(1), carbohydrates |-> Num(1),
     fat |-> Num(1), fiber |-> Num(0), sugar |-> Num(1), sodium |-> Num(2)]

ZeroRecord == [k \in NutrientSet |-> Num(0)]

PartialRecord == [calories |-> Num(2), protein |-> Num(2), fat |-> None]

\* The arguments of add_food_entry: a food and its nutrition record.
FoodInputs ==
    { <<"oatmeal", FullRecord>>, <<"stew", _get_default_nutrition_data>>,
      <<"toast", PartialRecord>> }

(***************************************************************************)
(* The SQL store (operations.py).  A timestamp is stored as the text       *)
(* '%Y-%m-%d %H:%M:%S' and a date as '%Y-%m-%d': the text of a timestamp   *)
(* is its day, hour, minute and second (the milliseconds are dropped) and  *)
(* the text of a date is its day.  Texts of this shape compare like the    *)
(* numbers TimestampKey gives them.                                        *)
(***************************************************************************)
strftime_date(now) == now.day

strftime_timestamp(now) ==
    [day |-> now.day, hour |-> now.hour, minute |-> now.minute,
     second |-> now.second]

strptime_timestamp(text) ==
    [day |-> text.day, hour |-> text.hour, minute |-> text.minute,
     second |-> text.second, ms |-> 0]

TimestampKey(text) ==
    ((text.day * 24 + text.hour) * 60 + text.minute) * 60 + text.second

\* json.dumps / json.loads of a nutrition dict: None is written as the
\* token null, a number as a number token; the keys are kept.
json_dumps(data) ==
    [k \in DOMAIN data |->
        IF data[k] = None THEN <<"null">> ELSE <<"number", Val(data[k])>>]

json_loads(text) ==
    [k \in DOMAIN text |->
        IF text[k][1] = "null" THEN None ELSE Num(text[k][2])]

\* The row add_food_entry inserts when the clock reads `now`.
add_food_entry_row(id, food_item, nutrition_data, now) ==
    [id |-> id, food_item |-> food_item,
     nutrition_data |-> json_dumps(nutrition_data),
     date |-> strftime_date(now), timestamp |-> strftime_timestamp(now)]

\* ORDER BY timestamp: rows in ascending order of the timestamp text, rows
\* of equal timestamp in the order of their rowid.
RECURSIVE OrderByTimestamp(_)
OrderByTimestamp(rows) ==
    IF rows = <<>> THEN <<>>
    ELSE LET sorted == OrderByTimestamp(SubSeq(rows, 1, Len(rows) - 1))
             r == rows[Len(rows)]
             before == SelectSeq(sorted,
                 LAMBDA x : TimestampKey(x.timestamp) <= TimestampKey(r.timestamp))
             after == SelectSeq(sorted,
                 LAMBDA x : TimestampKey(x.timestamp) > TimestampKey(r.timestamp))
         IN  before \o <<r>> \o after

\* select_daily_rows without its ORDER BY: the rows in rowid order.
select_daily_rows_unordered(table, date) ==
    SelectSeq(table, LAMBDA r : r.date = strftime_date([day |-> date]))

\* SELECT * FROM food_entries WHERE date = ? ORDER BY timestamp
select_daily_rows(table, date) ==
    OrderByTimestamp(SelectSeq(table, LAMBDA r : r.date = strftime_date([day |-> date])))

\* get_daily_entries: every selected row as a dict, its nutrition parsed
\* from JSON and its timestamp parsed to a datetime.
get_daily_entries(table, date) ==
    LET rows == select_daily_rows(table, date)
    IN  [i \in 1..Len(rows) |->
            [id |-> rows[i].id, food_item |-> rows[i].food_item,
             nutrition_data |-> json_loads(rows[i].nutrition_data),
             date |-> rows[i].date,
             timestamp |-> strptime_timestamp(rows[i].timestamp)]]

(***************************************************************************)
(* get_user_metrics returns the user_metrics row of the date as a dict, or *)
(* {} when there is none (or the read fails).  The table is written        *)
(* outside the chatbot; a read can find no row, a row without a calorie    *)
(* goal, or a row with one.                                                *)
(***************************************************************************)
EmptyDict == <<>>

UserMetricsRows ==
    { EmptyDict, [calories_goal |-> None], [calories_goal |-> Num(0)],
      [calories_goal |-> Num(3)] }

dict_get(d, key) == IF key \in DOMAIN d THEN d[key] ELSE None

\* Python truth of an optional number: None and 0 are false.
Truthy(v) == v # None /\ Val(v) # 0

(***************************************************************************)
(* analyze_daily_nutrition (nutrition_analyzer.py).                        *)
(*                                                                         *)
(* The loop over the entries is the fold analyze_loop: its state is the    *)
(* three locals totals, unknown_values and items_by_meal.  items_by_meal   *)
(* is a Python dict, which keeps its keys in the order of first insertion: *)
(* it is the sequence of its (meal, items) pairs in that order.            *)
(***************************************************************************)
analyze_init ==
    [totals |-> [k \in NutrientSet |-> 0], unknown_values |-> FALSE,
     items_by_meal |-> <<>>]

\* `key in nutrition and nutrition[key] is not None`
has_value(nutrition, key) == key \in DOMAIN nutrition /\ nutrition[key] # None

\* add_to_totals with `totals[key] = value` for `+=`.
add_to_totals_assign(st, nutrition) ==
    [st EXCEPT
        !.totals = [k \in NutrientSet |->
            IF has_value(nutrition, k) THEN Val(nutrition[k]) ELSE st.totals[k]],
        !.unknown_values =
            IF \E k \in NutrientSet : ~has_value(nutrition, k) THEN TRUE
            ELSE st.unknown_values]

\* add_to_totals with the flag assigned on both branches of the test, so
\* that an entry with every value present clears it.
add_to_totals_flag_cleared(st, nutrition) ==
    [st EXCEPT
        !.totals = [k \in NutrientSet |->
            IF has_value(nutrition, k) THEN st.totals[k] + Val(nutrition[k])
            ELSE st.totals[k]],
        !.unknown_values = \E k \in NutrientSet : ~has_value(nutrition, k)]

\* The inner loop over totals.keys(): a present value is added to its
\* total, a missing or null one sets unknown_values.
add_to_totals(st, nutrition) ==
    [st EXCEPT
        !.totals = [k \in NutrientSet |->
            IF has_value(nutrition, k) THEN st.totals[k] + Val(nutrition[k])
            ELSE st.totals[k]],
        !.unknown_values =
            IF \E k \in NutrientSet : ~has_value(nutrition, k) THEN TRUE
            ELSE st.unknown_values]

\* meal_of_hour with `<=` for `<` in the cutoffs.
meal_of_hour_inclusive(hour) ==
    IF hour <= 10 THEN "Breakfast"
    ELSE IF hour <= 14 THEN "Lunch"
    ELSE IF hour <= 18 THEN "Snacks"
    ELSE "Dinner"

\* The if/elif chain on the hour of the timestamp.
meal_of_hour(hour) ==
    IF hour < 10 THEN "Breakfast"
    ELSE IF hour < 14 THEN "Lunch"
    ELSE IF hour < 18 THEN "Snacks"
    ELSE "Dinner"

meal_index(items_by_meal, meal) ==
    { i \in 1..Len(items_by_meal) : items_by_meal[i].meal = meal }

\* `if meal not in items_by_meal: items_by_meal[meal] = []` and then
\* `items_by_meal[meal].append(food_item)`.
group_by_meal(st, meal, food_item) ==
    LET with_key ==
            IF meal_index(st.items_by_meal, meal) = {}
            THEN Append(st.items_by_meal, [meal |-> meal, items |-> <<>>])
            ELSE st.items_by_meal
    IN  [st EXCEPT !.items_by_meal =
            [i \in 1..Len(with_key) |->
                IF with_key[i].meal = meal
                THEN [with_key[i] EXCEPT !.items = Append(@, food_item)]
                ELSE with_key[i]]]

loop_body(st, entry) ==
    group_by_meal(add_to_totals(st, entry.nutrition_data),
                  meal_of_hour(entry.timestamp.hour), entry.food_item)

\* The state of the loop after its first n iterations.
RECURSIVE analyze_loop(_, _)
analyze_loop(entry_list, n) ==
    IF n = 0 THEN analyze_init
    ELSE loop_body(analyze_loop(entry_list, n - 1), entry_list[n])

\* goal_comparison with `>=` for `>`.
goal_comparison_ge(calories, calories_goal) ==
    IF Truthy(calories_goal)
    THEN IF calories >= Val(calories_goal)
         THEN [statement |-> "over", amount |-> calories - Val(calories_goal),
               goal |-> Val(calories_goal)]
         ELSE [statement |-> "remaining", amount |-> Val(calories_goal) - calories,
               goal |-> Val(calories_goal)]
    ELSE [statement |-> "none"]

\* The goal lines of the summary: `if calories_goal:` and the comparison.
goal_comparison(calories, calories_goal) ==
    IF Truthy(calories_goal)
    THEN IF calories > Val(calories_goal)
         THEN [statement |-> "over", amount |-> calories - Val(calories_goal),
               goal |-> Val(calories_goal)]
         ELSE [statement |-> "remaining", amount |-> Val(calories_goal) - calories,
               goal |-> Val(calories_goal)]
    ELSE [statement |-> "none"]

\* x / y of two numbers: a ZeroDivisionError when y is 0, else the exact
\* quotient, kept as the fraction <<x, y>>.
ZeroDivisionError == <<"ZeroDivisionError">>

divide(x, y) == IF y = 0 THEN ZeroDivisionError ELSE <<x, y>>

\* (part / total) * 100
percent_of(part, total) ==
    IF divide(part, total) = ZeroDivisionError THEN ZeroDivisionError
    ELSE <<divide(part, total)[1] * 100, divide(part, total)[2]>>

\* A non-negative fraction rounded to a whole number, ties to even: what
\* both format(x, '.0f') and round(x) do.
round_half_even(q) ==
    LET lo == q[1] \div q[2]
        twice == 2 * (q[1] % q[2])
    IN  IF twice < q[2] THEN lo
        ELSE IF twice > q[2] THEN lo + 1
        ELSE IF lo % 2 = 0 THEN lo ELSE lo + 1

\* total_calories_from_macros with fat at 4 kcal/g.
total_calories_fat_4(totals) ==
    totals["protein"] * 4 + totals["carbohydrates"] * 4 + totals["fat"] * 4

total_calories_from_macros(totals) ==
    totals["protein"] * 4 + totals["carbohydrates"] * 4 + totals["fat"] * 9

\* The macro percentages: computed, and the Macro Ratio line written, only
\* when the macro calories are positive.
\* macro_guard with `>=` for `>`.
macro_guard_ge(total) == total >= 0

macro_guard(total) == total > 0

macro_percentages(totals) ==
    LET total == total_calories_from_macros(totals)
    IN  IF macro_guard(total)
        THEN [reported |-> TRUE, divisions |-> 3,
              protein_percent |-> percent_of(totals["protein"] * 4, total),
              carb_percent |-> percent_of(totals["carbohydrates"] * 4, total),
              fat_percent |-> percent_of(totals["fat"] * 9, total)]
        ELSE [reported |-> FALSE, divisions |-> 0]

\* The Meals section: `for meal, items in items_by_meal.items()`.
meals_section(items_by_meal) == items_by_meal

\* The report of a non-empty list of entries, or the exception it raises.
analyze_daily_nutrition(entry_list, metrics) ==
    LET st == analyze_loop(entry_list, Len(entry_list))
        macro == macro_percentages(st.totals)
    IN  IF macro.reported /\ ZeroDivisionError \in
              {macro.protein_percent, macro.carb_percent, macro.fat_percent}
        THEN [kind |-> "raised"]
        ELSE [kind |-> "analysis",
              entry_date |-> entry_list[1].date,
              totals |-> st.totals,
              goal |-> goal_comparison(st.totals["calories"],
                                       dict_get(metrics, "calories_goal")),
              macro |-> macro,
              ratio_line |->
                  IF macro.reported
                  THEN <<round_half_even(macro.protein_percent),
                         round_half_even(macro.carb_percent),
                         round_half_even(macro.fat_percent)>>
                  ELSE <<>>,
              meals |-> meals_section(st.items_by_meal),
              note |-> st.unknown_values]

\* _generate_analysis (message_handler.py): no entries, the analysis, or the
\* error message when the analysis raised.
generate_analysis(date, entry_list, metrics) ==
    IF entry_list = <<>> THEN [kind |-> "no_entries", date |-> date]
    ELSE IF analyze_daily_nutrition(entry_list, metrics).kind = "raised"
         THEN [kind |-> "error"]
         ELSE analyze_daily_nutrition(entry_list, metrics)

(***************************************************************************)
(* The oracle (openai_client.py): get_nutrition_info answers the default   *)
(* record when the call or the parse fails, and the validated reply        *)
(* otherwise; _validate_nutrition_data gives every missing field the value *)
(* None.                                                                   *)
(***************************************************************************)
_validate_nutrition_data(data) ==
    [k \in NutrientSet |-> IF k \in DOMAIN data THEN data[k] ELSE None]

\* What the dashboard user logs, and what the oracle replies to it: a
\* fault (transport or parse), or a JSON object.
OracleReplies ==
    { <<"stew", [fault |-> TRUE]>>,
      <<"oatmeal", [fault |-> FALSE, data |-> FullRecord]>>,
      <<"water", [fault |-> FALSE, data |-> ZeroRecord]>>,
      <<"toast", [fault |-> FALSE, data |-> PartialRecord]>> }

get_nutrition_info(reply) ==
    IF reply.fault THEN _get_default_nutrition_data
    ELSE _validate_nutrition_data(reply.data)

(***************************************************************************)
(* The document store (mongo_operations.py) and the dashboard (app.py).    *)
(***************************************************************************)
DEFAULT_CALORIE_GOAL == 2000

\* dict.get(key, default): the default only when the key is missing.
dict_get_default(d, key, default) == IF key \in DOMAIN d THEN d[key] ELSE default

\* The "nutrition" sub-document main builds from the oracle's record.
entry_nutrition(nutrition_data) ==
    [calories |-> dict_get_default(nutrition_data, "calories", Num(0)),
     protein |-> dict_get_default(nutrition_data, "protein", Num(0)),
     carbs |-> dict_get_default(nutrition_data, "carbohydrates", Num(0)),
     fat |-> dict_get_default(nutrition_data, "fat", Num(0)),
     fiber |-> dict_get_default(nutrition_data, "fiber", Num(0)),
     sugar |-> dict_get_default(nutrition_data, "sugar", Num(0))]

\* A datetime as a number of milliseconds, to compare two of them.
DatetimeKey(t) == TimestampKey(t) * 1000 + t.ms

\* datetime(year, month, day) and its replace(hour=23, minute=59, second=59)
day_start(date) ==
    [day |-> date, hour |-> 0, minute |-> 0, second |-> 0, ms |-> 0]

day_end(date) ==
    [day_start(date) EXCEPT !.hour = 23, !.minute = 59, !.second = 59]

\* .sort("timestamp", ASCENDING)
RECURSIVE sort_by_timestamp(_)
sort_by_timestamp(docs) ==
    IF docs = <<>> THEN <<>>
    ELSE LET sorted == sort_by_timestamp(SubSeq(docs, 1, Len(docs) - 1))
             d == docs[Len(docs)]
             before == SelectSeq(sorted,
                 LAMBDA x : DatetimeKey(x.timestamp) <= DatetimeKey(d.timestamp))
             after == SelectSeq(sorted,
                 LAMBDA x : DatetimeKey(x.timestamp) > DatetimeKey(d.timestamp))
         IN  before \o <<d>> \o after

\* MongoDBClient.get_daily_entries: timestamp between $gte start and $lte end
mongo_get_daily_entries(collection, user_id, date) ==
    sort_by_timestamp(SelectSeq(collection, LAMBDA d :
        /\ d.user_id = user_id
        /\ DatetimeKey(d.timestamp) >= DatetimeKey(day_start(date))
        /\ DatetimeKey(d.timestamp) <= DatetimeKey(day_end(date))))

\* sum(...) of Python over optional numbers: 0 + None raises a TypeError.
RECURSIVE sum_seq(_)
sum_seq(values) ==
    IF values = <<>> THEN 0
    ELSE sum_seq(SubSeq(values, 1, Len(values) - 1)) + Val(values[Len(values)])

py_sum(values) ==
    IF \E i \in 1..Len(values) : values[i] = None THEN [raised |-> TRUE]
    ELSE [raised |-> FALSE, value |-> sum_seq(values)]

field_of(docs, key) == [i \in 1..Len(docs) |-> docs[i].nutrition[key]]

\* _update_daily_summary: the summary document of the day, or the exception
\* its try block catches and logs.
daily_summary(docs, date) ==
    LET total_calories == py_sum(field_of(docs, "calories"))
        protein == py_sum(field_of(docs, "protein"))
        carbs == py_sum(field_of(docs, "carbs"))
        fat == py_sum(field_of(docs, "fat"))
    IN  IF total_calories.raised \/ protein.raised \/ carbs.raised \/ fat.raised
        THEN [raised |-> TRUE]
        ELSE [raised |-> FALSE, date |-> date,
              total_calories |-> total_calories.value,
              remaining_calories |-> DEFAULT_CALORIE_GOAL - total_calories.value,
              protein |-> protein.value, carbs |-> carbs.value, fat |-> fat.value]

\* create_macronutrient_chart: the macro calories and the three rounded
\* percentages, or the exception a division raises.
chart_guard(total_cals) == total_cals > 0

create_macronutrient_chart(daily_entries) ==
    LET protein_cals == sum_seq(field_of(daily_entries, "protein")) * 4
        carbs_cals == sum_seq(field_of(daily_entries, "carbs")) * 4
        fat_cals == sum_seq(field_of(daily_entries, "fat")) * 9
        total_cals == protein_cals + carbs_cals + fat_cals
        exact == <<percent_of(protein_cals, total_cals),
                   percent_of(carbs_cals, total_cals),
                   percent_of(fat_cals, total_cals)>>
    IN  IF chart_guard(total_cals)
        THEN IF ZeroDivisionError \in {exact[1], exact[2], exact[3]}
             THEN [raised |-> TRUE]
             ELSE [raised |-> FALSE, divisions |-> 3,
                   cals |-> <<protein_cals, carbs_cals, fat_cals>>,
                   pct |-> <<round_half_even(exact[1]), round_half_even(exact[2]),
                             round_half_even(exact[3])>>]
        ELSE [raised |-> FALSE, divisions |-> 0,
              cals |-> <<protein_cals, carbs_cals, fat_cals>>,
              pct |-> <<0, 0, 0>>]

\* int(x) of a non-negative fraction: the whole part.
int_of(q) == q[1] \div q[2]

min(a, b) == IF a < b THEN a ELSE b

\* The body of main after the sidebar: the daily metrics and, when the day
\* has entries, the macronutrient chart.  An exception here is caught by
\* nothing: the run of the script ends with it.
render(daily_entries, selected_date) ==
    LET consumed == py_sum(field_of(daily_entries, "calories"))
        protein == py_sum(field_of(daily_entries, "protein"))
        carbs == py_sum(field_of(daily_entries, "carbs"))
        fat == py_sum(field_of(daily_entries, "fat"))
        chart == create_macronutrient_chart(daily_entries)
    IN  IF consumed.raised \/ protein.raised \/ carbs.raised \/ fat.raised
        THEN [status |-> "fault", selected_date |-> selected_date]
        ELSE IF daily_entries # <<>> /\ chart.raised
        THEN [status |-> "fault", selected_date |-> selected_date]
        ELSE [status |-> "ok", selected_date |-> selected_date,
              consumed_calories |-> consumed.value,
              remaining_calories |-> DEFAULT_CALORIE_GOAL - consumed.value,
              progress_percentage |->
                  min(100, int_of(percent_of(consumed.value, DEFAULT_CALORIE_GOAL))),
              protein |-> protein.value, carbs |-> carbs.value, fat |-> fat.value,
              chart |-> IF daily_entries # <<>> THEN chart ELSE [raised |-> FALSE]]

UserId == "demo_user"

(***************************************************************************)
(* The state machine.                                                      *)
(***************************************************************************)
Init ==
    /\ prog \in {"cli", "dashboard"}
    /\ food_entries = <<>>
    /\ entries = <<>>
    /\ user_metrics = EmptyDict
    /\ response = [kind |-> "none"]
    /\ food_collection = <<>>
    /\ users_collection = [d \in Days |-> [raised |-> TRUE]]
    /\ dashboard = [status |-> "none"]
    /\ today = None
    /\ call = [fn |-> "none"]
    /\ returned = None

\* add_food_entry(food_item, nutrition_data), the clock reading `now`.
AddFoodEntry ==
    /\ prog = "cli"
    /\ Len(food_entries) < MaxEntries
    /\ \E input \in FoodInputs, now \in Instants :
          /\ food_entries' = Append(food_entries,
                add_food_entry_row(Len(food_entries) + 1, input[1], input[2], now))
          /\ response' = [kind |-> "added", food_item |-> input[1]]
    /\ entries' = <<>>
    /\ user_metrics' = EmptyDict
    /\ UNCHANGED <<prog, food_collection, users_collection, dashboard>>
    /\ UNCHANGED library

\* The command "analyze <date>": _generate_analysis fetches the entries of
\* the date and, when there are any, analyze_daily_nutrition reads the
\* metrics row of the date and writes the report.
GenerateAnalysis ==
    /\ prog = "cli"
    /\ \E date \in Days, metrics \in UserMetricsRows :
          /\ entries' = get_daily_entries(food_entries, date)
          /\ user_metrics' = IF entries' = <<>> THEN EmptyDict ELSE metrics
          /\ response' = generate_analysis(date, entries', user_metrics')
    /\ UNCHANGED <<prog, food_entries, food_collection, users_collection, dashboard>>
    /\ UNCHANGED library

\* insert_food_entry: the document with its user and timestamp, then
\* _update_daily_summary, which upserts the summary of today or logs the
\* exception.  One reading of the clock stands for the readings of one run.
insert_food_entry(collection, user_id, entry, now) ==
    Append(collection, [entry EXCEPT !.user_id = user_id, !.timestamp = now])

_update_daily_summary(summaries, collection, user_id, now) ==
    LET summary == daily_summary(
            mongo_get_daily_entries(collection, user_id, now.day), now.day)
    IN  IF summary.raised THEN summaries
        ELSE [summaries EXCEPT ![now.day] = summary]

\* A run of the dashboard script with the Log Meal button pressed.
LogMeal ==
    /\ prog = "dashboard"
    /\ Len(food_collection) < MaxEntries
    /\ \E input \in OracleReplies, now \in Instants, selected_date \in Days :
          LET nutrition_data == get_nutrition_info(input[2])
              entry == [user_id |-> UserId, food_item |-> input[1],
                        nutrition |-> entry_nutrition(nutrition_data),
                        timestamp |-> now]
          IN  /\ food_collection' = insert_food_entry(food_collection, UserId, entry, now)
              /\ users_collection' =
                    _update_daily_summary(users_collection, food_collection', UserId, now)
              /\ dashboard' = render(
                    mongo_get_daily_entries(food_collection', UserId, selected_date),
                    selected_date)
    /\ UNCHANGED <<prog, food_entries, entries, user_metrics, response>>
    /\ UNCHANGED library

\* A run of the dashboard script without logging: a date is selected.
SelectDate ==
    /\ prog = "dashboard"
    /\ \E selected_date \in Days :
          dashboard' = render(
              mongo_get_daily_entries(food_collection, UserId, selected_date),
              selected_date)
    /\ UNCHANGED <<prog, food_entries, entries, user_metrics, response,
                   food_collection, users_collection>>
    /\ UNCHANGED library

Next == AddFoodEntry \/ GenerateAnalysis \/ LogMeal \/ SelectDate

Spec == Init /\ [][Next]_vars

\* The chatbot on its own.
InitCli == Init /\ prog = "cli"

NextCli == AddFoodEntry \/ GenerateAnalysis

SpecCli == InitCli /\ [][NextCli]_vars

(***************************************************************************)
(* The macro percentages over all macro totals: the stores hold one meal   *)
(* whose protein, carbohydrates and fat are each null or a number up to    *)
(* MaxGrams, logged at lunch time of the first day, and the day is         *)
(* analysed or rendered.                                                   *)
(***************************************************************************)
MacroValues == { None } \cup { Num(n) : n \in 0..MaxGrams }

MacroRecord(p, c, f) ==
    [calories |-> Num(1), protein |-> p, carbohydrates |-> c, fat |-> f,
     fiber |-> Num(0), sugar |-> Num(0), sodium |-> Num(0)]

Lunchtime == [day |-> 1, hour |-> 10, minute |-> 0, second |-> 0, ms |-> 0]

InitMacro ==
    /\ prog \in {"cli", "dashboard"}
    /\ entries = <<>>
    /\ user_metrics = EmptyDict
    /\ response = [kind |-> "none"]
    /\ dashboard = [status |-> "none"]
    /\ \E p, c, f \in MacroValues :
          LET entry == [user_id |-> UserId, food_item |-> "meal",
                        nutrition |-> entry_nutrition(MacroRecord(p, c, f)),
                        timestamp |-> Lunchtime]
          IN  /\ food_entries =
                    IF prog = "cli"
                    THEN <<add_food_entry_row(1, "meal", MacroRecord(p, c, f), Lunchtime)>>
                    ELSE <<>>
              /\ food_collection =
                    IF prog = "dashboard"
                    THEN insert_food_entry(<<>>, UserId, entry, Lunchtime)
                    ELSE <<>>
    /\ users_collection =
          _update_daily_summary([d \in Days |-> [raised |-> TRUE]],
                                food_collection, UserId, Lunchtime)
    /\ today = None
    /\ call = [fn |-> "none"]
    /\ returned = None

NextMacro == GenerateAnalysis \/ SelectDate

SpecMacro == InitMacro /\ [][NextMacro]_vars

(***************************************************************************)
(* get_weekly_trend (nutrition_analyzer.py).  A date is the number of its  *)
(* day, consecutive days having consecutive numbers, so that               *)
(* timedelta(days=n) is the number n.  The store holds meals logged at     *)
(* noon of days before, at both ends of, inside and after the week that    *)
(* is reported, with calories on both sides of the two thresholds.         *)
(***************************************************************************)
TrendDays == {1, 2, 3, 8, 9}

TrendInstants ==
    { [day |-> d, hour |-> 12, minute |-> 0, second |-> 0, ms |-> 0] : d \in TrendDays }

TrendInputs ==
    { <<"rice", [calories |-> Num(200), protein |-> Num(4)]>>,
      <<"pasta", [calories |-> Num(201), protein |-> None]>>,
      <<"burger", [calories |-> Num(500)]>>,
      <<"pizza", [calories |-> Num(501), protein |-> Num(7)]>>,
      <<"stew", _get_default_nutrition_data>> }

\* The values of date.today() and of the argument end_date of the calls.
TrendToday == 8

TrendEndDates == {None, Num(9)}

\* `d.get(key, 0) or 0`
get_or_zero(d, key) ==
    LET v == dict_get_default(d, key, Num(0))
    IN  IF Truthy(v) THEN Val(v) ELSE 0

\* sum(entry['nutrition_data'].get(key, 0) or 0 for entry in entries)
RECURSIVE day_sum(_, _)
day_sum(entry_list, key) ==
    IF entry_list = <<>> THEN 0
    ELSE day_sum(SubSeq(entry_list, 1, Len(entry_list) - 1), key)
         + get_or_zero(entry_list[Len(entry_list)].nutrition_data, key)

\* The loop `while current_date <= end_date`: its state is current_date and
\* the lists daily_calories and daily_protein; fetched is the list of the
\* dates get_daily_entries was called with.
trend_init(start_date) ==
    [current_date |-> start_date, fetched |-> <<>>, daily_calories |-> <<>>,
     daily_protein |-> <<>>]

\* The loop condition with `<` for `<=`: the end date is left out.
loop_condition_lt(current_date, end_date) == current_date < end_date

\* `while current_date <= end_date`
loop_condition(current_date, end_date) == current_date <= end_date

RECURSIVE trend_loop(_, _, _)
trend_loop(table, st, end_date) ==
    IF loop_condition(st.current_date, end_date)
    THEN LET entry_list == get_daily_entries(table, st.current_date)
         IN  trend_loop(table,
                [current_date |-> st.current_date + 1,
                 fetched |-> Append(st.fetched, st.current_date),
                 daily_calories |-> Append(st.daily_calories, day_sum(entry_list, "calories")),
                 daily_protein |-> Append(st.daily_protein, day_sum(entry_list, "protein"))],
                end_date)
    ELSE st

RECURSIVE sum_list(_)
sum_list(values) ==
    IF values = <<>> THEN 0
    ELSE sum_list(SubSeq(values, 1, Len(values) - 1)) + values[Len(values)]

max_list(values) ==
    CHOOSE m \in { values[i] : i \in 1..Len(values) } :
        \A i \in 1..Len(values) : values[i] <= m

min_list(values) ==
    CHOOSE m \in { values[i] : i \in 1..Len(values) } :
        \A i \in 1..Len(values) : m <= values[i]

abs(x) == IF x < 0 THEN -x ELSE x

TREND_THRESHOLD == 200

VARIABILITY_THRESHOLD == 500

\* The trend statement with `>=` for `>`.
trend_statement_ge(daily_calories) ==
    LET calories_trend == daily_calories[Len(daily_calories)] - daily_calories[1]
    IN  IF abs(calories_trend) >= TREND_THRESHOLD
        THEN IF calories_trend > 0 THEN "increasing" ELSE "decreasing"
        ELSE "none"

\* The trend statement: daily_calories[-1] - daily_calories[0]
trend_statement(daily_calories) ==
    LET calories_trend == daily_calories[Len(daily_calories)] - daily_calories[1]
    IN  IF abs(calories_trend) > TREND_THRESHOLD
        THEN IF calories_trend > 0 THEN "increasing" ELSE "decreasing"
        ELSE "none"

\* The variability statement with `>=` for `>`.
variability_statement_ge(daily_calories) ==
    IF max_list(daily_calories) - min_list(daily_calories) >= VARIABILITY_THRESHOLD
    THEN "varies significantly"
    ELSE "consistent"

\* The variability statement: max(daily_calories) - min(daily_calories)
variability_statement(daily_calories) ==
    IF max_list(daily_calories) - min_list(daily_calories) > VARIABILITY_THRESHOLD
    THEN "varies significantly"
    ELSE "consistent"

\* The report of get_weekly_trend(end_date) on a table, date.today()
\* reading now_date.  The averages and the insights are written only when
\* the list of days is not empty and has at least 7 elements.
get_weekly_trend(table, end_date_arg, now_date) ==
    LET end_date == IF end_date_arg = None THEN now_date ELSE Val(end_date_arg)
        start_date == end_date - 6
        st == trend_loop(table, trend_init(start_date), end_date)
        n == Len(st.daily_calories)
    IN  [start_date |-> start_date, end_date |-> end_date,
         fetched |-> st.fetched,
         daily_calories |-> st.daily_calories,
         daily_protein |-> st.daily_protein,
         averages |-> n # 0,
         avg_calories |->
            IF n # 0 THEN divide(sum_list(st.daily_calories), n) ELSE None,
         avg_protein |->
            IF n # 0 THEN divide(sum_list(st.daily_protein), n) ELSE None,
         trend |->
            IF n # 0 /\ n >= 7 THEN trend_statement(st.daily_calories) ELSE "none",
         variability |->
            IF n # 0 /\ n >= 7 THEN variability_statement(st.daily_calories)
            ELSE "none"]

\* add_food_entry of the chatbot, for the meals of the weekly report.
AddTrendEntry ==
    /\ Len(food_entries) < MaxEntries
    /\ \E input \in TrendInputs, now \in TrendInstants :
          /\ food_entries' = Append(food_entries,
                add_food_entry_row(Len(food_entries) + 1, input[1], input[2], now))
          /\ call' = [fn |-> "add_food_entry", food_item |-> input[1]]
          /\ returned' = TRUE
    /\ UNCHANGED <<prog, entries, user_metrics, response, food_collection,
                   users_collection, dashboard, today>>

\* A call get_weekly_trend(end_date), or get_weekly_trend() when end_date
\* is None; date.today() is read only in the second.
GetWeeklyTrend ==
    /\ \E end_date \in TrendEndDates :
          /\ today' = IF end_date = None THEN Num(TrendToday) ELSE today
          /\ call' = [fn |-> "get_weekly_trend", end_date |-> end_date]
          /\ returned' = get_weekly_trend(food_entries, end_date, TrendToday)
    /\ UNCHANGED <<prog, food_entries, entries, user_metrics, response,
                   food_collection, users_collection, dashboard>>

NextTrend == AddTrendEntry \/ GetWeeklyTrend

SpecTrend == InitCli /\ [][NextTrend]_vars

(***************************************************************************)
(* Python strings.  A str is a string; s[i:j], startswith, endswith, `in`, *)
(* lower, strip and split are computed character by character.             *)
(***************************************************************************)
char_at(s, i) == SubSeq(s, i, i)

\* s[i-1:], the text from the i-th character on.
text_from(s, i) == IF i > Len(s) THEN "" ELSE SubSeq(s, i, Len(s))

\* s[:n], the first n characters.
text_upto(s, n) == IF n < 1 THEN "" ELSE SubSeq(s, 1, n)

\* p occurs in s at position i.
occurs_at(s, p, i) ==
    /\ i >= 1
    /\ i + Len(p) - 1 <= Len(s)
    /\ SubSeq(s, i, i + Len(p) - 1) = p

startswith(s, p) == occurs_at(s, p, 1)

endswith(s, p) == occurs_at(s, p, Len(s) - Len(p) + 1)

\* `p in s`
contains(s, p) == \E i \in 1..Len(s) : occurs_at(s, p, i)

ascii_uppercase == "ABCDEFGHIJKLMNOPQRSTUVWXYZ"

ascii_lowercase == "abcdefghijklmnopqrstuvwxyz"

lower_char(c) ==
    IF \E i \in 1..Len(ascii_uppercase) : char_at(ascii_uppercase, i) = c
    THEN char_at(ascii_lowercase,
            CHOOSE i \in 1..Len(ascii_uppercase) : char_at(ascii_uppercase, i) = c)
    ELSE c

RECURSIVE lower(_)
lower(s) ==
    IF s = "" THEN ""
    ELSE lower(text_upto(s, Len(s) - 1)) \o lower_char(char_at(s, Len(s)))

\* The characters str.strip, str.split and \s take for whitespace.
whitespace == {" ", "\t", "\n"}

RECURSIVE lstrip(_)
lstrip(s) ==
    IF s # "" /\ char_at(s, 1) \in whitespace THEN lstrip(text_from(s, 2)) ELSE s

RECURSIVE rstrip(_)
rstrip(s) ==
    IF s # "" /\ char_at(s, Len(s)) \in whitespace
    THEN rstrip(text_upto(s, Len(s) - 1))
    ELSE s

strip(s) == lstrip(rstrip(s))

\* The length of the first word of a text that does not start with
\* whitespace.
RECURSIVE word_length(_)
word_length(s) ==
    IF s = "" \/ char_at(s, 1) \in whitespace THEN 0
    ELSE 1 + word_length(text_from(s, 2))

\* s.split(): the words of s, separated by runs of whitespace.
RECURSIVE split_words(_)
split_words(s) ==
    LET t == lstrip(s)
    IN  IF t = "" THEN <<>>
        ELSE <<text_upto(t, word_length(t))>>
             \o split_words(text_from(t, word_length(t) + 1))

\* s.split(maxsplit=1): the first word, and the rest of the text without
\* its leading whitespace when there is one.
split_maxsplit_1(s) ==
    LET t == lstrip(s)
        rest == lstrip(text_from(t, word_length(t) + 1))
    IN  IF t = "" THEN <<>>
        ELSE IF rest = "" THEN <<text_upto(t, word_length(t))>>
        ELSE <<text_upto(t, word_length(t)), rest>>

\* s.split(sep) for a separator that is not empty.
RECURSIVE split_on(_, _)
split_on(s, sep) ==
    IF ~contains(s, sep) THEN <<s>>
    ELSE LET i == CHOOSE i \in 1..Len(s) :
                    /\ occurs_at(s, sep, i)
                    /\ \A j \in 1..(i - 1) : ~occurs_at(s, sep, j)
         IN  <<text_upto(s, i - 1)>> \o split_on(text_from(s, i + Len(sep)), sep)

digits == "0123456789"

is_digit(c) == \E i \in 1..Len(digits) : char_at(digits, i) = c

digit_value(c) == (CHOOSE i \in 1..Len(digits) : char_at(digits, i) = c) - 1

\* The length of the longest prefix of digits, what \d+ matches at the
\* start of s when a non-digit has to follow.
RECURSIVE digits_prefix(_)
digits_prefix(s) ==
    IF s = "" \/ ~is_digit(char_at(s, 1)) THEN 0
    ELSE 1 + digits_prefix(text_from(s, 2))

\* int(s) of a text of digits.
RECURSIVE int(_)
int(s) ==
    IF s = "" THEN 0
    ELSE int(text_upto(s, Len(s) - 1)) * 10 + digit_value(char_at(s, Len(s)))

(***************************************************************************)
(* parse_date (utils/date_helpers.py).  A datetime.date is <<"date", n>>,  *)
(* n its proleptic Gregorian ordinal: date.min is day 1, a Monday, and     *)
(* date.max is day 3652059.  Adding a timedelta that leaves this range     *)
(* raises OverflowError.                                                   *)
(***************************************************************************)
Date(n) == <<"date", n>>

ordinal(d) == d[2]

OverflowError == <<"OverflowError">>

is_date(v) == Len(v) = 2

\* date + timedelta(days=n)
date_plus(d, n) ==
    IF ordinal(d) + n < 1 \/ ordinal(d) + n > 3652059 THEN OverflowError
    ELSE Date(ordinal(d) + n)

\* date.weekday(): Monday is 0, Sunday is 6.
weekday(d) == (ordinal(d) + 6) % 7

weekdays ==
    <<"monday", "tuesday", "wednesday", "thursday", "friday", "saturday", "sunday">>

\* re.match of 'last (monday|...|sunday)' or 'next (...)': the number of
\* the weekday whose name follows the word at the start of the text, or
\* None.
weekday_match(word, date_str) ==
    IF \E i \in 1..7 : startswith(date_str, word \o " " \o weekdays[i])
    THEN Num((CHOOSE i \in 1..7 : startswith(date_str, word \o " " \o weekdays[i])) - 1)
    ELSE None

\* re.match(r'(\d+) days? ago', date_str): the number of group 1, or None.
days_ago_match(date_str) ==
    LET n == digits_prefix(date_str)
    IN  IF n >= 1 /\ (\/ occurs_at(date_str, " days ago", n + 1)
                      \/ occurs_at(date_str, " day ago", n + 1))
        THEN Num(int(text_upto(date_str, n)))
        ELSE None

\* dateutil's parser.parse(date_str, dayfirst=False, yearfirst=False) on
\* the texts of the model that reach it: an ISO date is that date, a clock
\* time is that time of today, and any other of these texts raises
\* ParserError, which parse_date turns into None.
IsoDates == [text \in {"2024-01-03"} |-> Date(738888)]

ClockTimes == {"12:30"}

\* parse_date's fallback with today in place of None when dateutil raises.
parser_parse_or_today(date_str, now_date) ==
    IF date_str \in DOMAIN IsoDates THEN IsoDates[date_str]
    ELSE now_date

parser_parse(date_str, now_date) ==
    IF date_str \in DOMAIN IsoDates THEN IsoDates[date_str]
    ELSE IF date_str \in ClockTimes THEN now_date
    ELSE None

\* "last <weekday>" with days_ago left at 0 on the weekday itself.
last_weekday_no_wrap(now_date, target_weekday) ==
    date_plus(now_date, -((weekday(now_date) - target_weekday) % 7))

last_weekday(now_date, target_weekday) ==
    LET days_ago == (weekday(now_date) - target_weekday) % 7
    IN  date_plus(now_date, -(IF days_ago = 0 THEN 7 ELSE days_ago))

next_weekday(now_date, target_weekday) ==
    LET days_ahead == (target_weekday - weekday(now_date)) % 7
    IN  date_plus(now_date, IF days_ahead = 0 THEN 7 ELSE days_ahead)

RelativeDates ==
    {"today", "now", "yesterday", "last day", "tomorrow", "this week", "last week"}

\* The if/elif chain of the relative dates.
relative_date(date_str, now_date) ==
    IF date_str \in {"today", "now"} THEN now_date
    ELSE IF date_str \in {"yesterday", "last day"} THEN date_plus(now_date, -1)
    ELSE IF date_str \in {"tomorrow"} THEN date_plus(now_date, 1)
    ELSE IF date_str \in {"this week"} THEN date_plus(now_date, -weekday(now_date))
    ELSE date_plus(now_date, -(weekday(now_date) + 7))

\* parse_date(date_str) when date.today() is now_date: a date, None, or
\* the OverflowError the date arithmetic raises (only the call of dateutil
\* is inside a try).
parse_date(date_str_arg, now_date) ==
    IF date_str_arg = "" THEN now_date
    ELSE LET date_str == strip(lower(date_str_arg))
         IN  IF date_str \in RelativeDates THEN relative_date(date_str, now_date)
             ELSE IF days_ago_match(date_str) # None
             THEN date_plus(now_date, -Val(days_ago_match(date_str)))
             ELSE IF weekday_match("last", date_str) # None
             THEN last_weekday(now_date, Val(weekday_match("last", date_str)))
             ELSE IF weekday_match("next", date_str) # None
             THEN next_weekday(now_date, Val(weekday_match("next", date_str)))
             ELSE parser_parse(date_str, now_date)

(***************************************************************************)
(* The command "analyze [date]" / "report [date]" of handle_message and    *)
(* _generate_analysis (message_handler.py).  The answer is the response;   *)
(* what the handler did on the way (the date text it took from the         *)
(* message, the date it got for it, the date it fetched the entries of) is *)
(* kept beside it.                                                         *)
(***************************************************************************)
is_analyze_command(message) ==
    \/ startswith(lower(message), "analyze")
    \/ startswith(lower(message), "report")

\* _generate_analysis(date_str), date_str being parts[1] or None: what it
\* did, and its answer.  An exception of parse_date is caught like any
\* other and answered with the general error message.
_generate_analysis(parts, table, metrics, now_date) ==
    LET date == IF Len(parts) > 1 THEN parse_date(parts[2], now_date) ELSE now_date
        fetched == IF is_date(date) THEN get_daily_entries(table, ordinal(date)) ELSE <<>>
    IN  [date_str |-> IF Len(parts) > 1 THEN parts[2] ELSE "",
         date |-> date,
         fetched_date |-> IF is_date(date) THEN date ELSE None,
         entries |-> fetched,
         metrics |-> IF fetched = <<>> THEN EmptyDict ELSE metrics,
         response |->
            IF date = None THEN [kind |-> "date_not_understood"]
            ELSE IF date = OverflowError THEN [kind |-> "error"]
            ELSE generate_analysis(ordinal(date), fetched,
                                   IF fetched = <<>> THEN EmptyDict ELSE metrics)]

\* The values of date.today(): the days of one week, Monday to Sunday.
Todays == { Date(n) : n \in 738886..738892 }

\* The texts given to parse_date.
WeekdayTexts ==
    { word \o " " \o weekdays[i] : word \in {"last", "next"}, i \in 1..7 }

DaysAgoTexts ==
    { "0 days ago", "1 day ago", "1 days ago", "3 days ago", "10 days ago",
      "738885 days ago", "738892 days ago", "1000000 days ago" }

UnknownTexts == { "not a date", "someday", "3 weeks ago", "days ago", " " }

DateTexts ==
    RelativeDates \cup WeekdayTexts \cup DaysAgoTexts \cup UnknownTexts
    \cup DOMAIN IsoDates \cup ClockTimes
    \cup { "", " Today ", "NOW", "Last Day", "\tTomorrow", "This Week", "LAST WEEK ",
           " 3 Days Ago", "Next Friday ", " last SUNDAY" }

\* The messages of the analyze command.
AnalyzeMessages ==
    { "analyze", "report", " Analyze ", "analyze yesterday", "report  not a date",
      "analyze someday", "Report 3 days ago", "analyze 1000000 days ago",
      "analyze last monday", "analyze 2024-01-03", "analyze today",
      "analyze Last Week", "report 12:30", "analyze 3 weeks ago" }

\* The store of the analyze command: one meal, logged on the Monday.
DateTable ==
    <<add_food_entry_row(1, "oatmeal", FullRecord,
        [day |-> 738886, hour |-> 12, minute |-> 0, second |-> 0, ms |-> 0])>>

\* A call of parse_date or a message of the analyze command is about to
\* be made: date.today() and the argument are fixed, nothing is returned
\* yet.
InitDate ==
    /\ prog = "cli"
    /\ food_entries = DateTable
    /\ entries = <<>>
    /\ user_metrics = EmptyDict
    /\ response = [kind |-> "none"]
    /\ food_collection = <<>>
    /\ users_collection = [d \in Days |-> [raised |-> TRUE]]
    /\ dashboard = [status |-> "none"]
    /\ today \in Todays
    /\ \/ \E date_str \in DateTexts :
             call = [fn |-> "parse_date", date_str |-> date_str, done |-> FALSE]
       \/ \E message \in AnalyzeMessages :
             call = [fn |-> "handle_message", message |-> message, done |-> FALSE]
    /\ returned = None

\* The call parse_date(date_str).
ParseDate ==
    /\ call.fn = "parse_date"
    /\ ~call.done
    /\ call' = [call EXCEPT !.done = TRUE]
    /\ returned' = parse_date(call.date_str, today)
    /\ UNCHANGED <<prog, food_entries, entries, user_metrics, response,
                   food_collection, users_collection, dashboard, today>>

\* handle_message on a message of the analyze command.
AnalyzeCommand ==
    /\ call.fn = "handle_message"
    /\ ~call.done
    /\ is_analyze_command(strip(call.message))
    /\ \E row \in UserMetricsRows :
          LET done == _generate_analysis(split_maxsplit_1(strip(call.message)),
                                         food_entries, row, today)
          IN  /\ call' = [call EXCEPT !.done = TRUE]
              /\ returned' = [date_str |-> done.date_str, date |-> done.date,
                              fetched_date |-> done.fetched_date]
              /\ entries' = done.entries
              /\ user_metrics' = done.metrics
              /\ response' = done.response
    /\ UNCHANGED <<prog, food_entries, food_collection, users_collection, dashboard,
                   today>>

NextDate == ParseDate \/ AnalyzeCommand

SpecDate == InitDate /\ [][NextDate]_vars

(***************************************************************************)
(* is_food_entry and parse_food_input (utils/food_parser.py).  A regular   *)
(* expression is computed on the text: an alternation takes the first      *)
(* alternative, in the order written, with which the whole pattern         *)
(* matches; \s+ takes the longest run of whitespace.                       *)
(***************************************************************************)
MEAL_KEYWORDS ==
    <<"ate", "had", "consumed", "eat", "having", "drinking", "drank", "lunch",
      "dinner", "breakfast", "snack", "meal", "food", "calories">>

meals == <<"breakfast", "lunch", "dinner", "snack">>

time_markers == <<"today", "this morning", "this afternoon", "this evening">>

\* re.search(lead(?:alt1|alt2|...), text)
search_phrase(text, lead, alts) ==
    \E i \in 1..Len(alts) : contains(text, lead \o alts[i])

\* The three patterns of is_food_entry.
food_patterns ==
    << <<"i ", <<"ate", "had", "consumed">> >>, <<"for ", meals>>, <<"", time_markers>> >>

MAX_WORDS == 15

\* The fallback with `<=` for `<`.
is_short_statement_le(message) ==
    Len(split_words(message)) <= MAX_WORDS /\ ~endswith(message, "?")

\* `len(message.split()) < 15 and not message.endswith('?')`
is_short_statement(message) ==
    Len(split_words(message)) < MAX_WORDS /\ ~endswith(message, "?")

\* is_food_entry: the rule that decides, in the order of the code, and the
\* value returned.
is_food_entry(message_arg) ==
    LET message == lower(message_arg)
    IN  IF \E i \in 1..Len(MEAL_KEYWORDS) : contains(message, MEAL_KEYWORDS[i])
        THEN [value |-> TRUE, rule |-> "keyword"]
        ELSE IF \E k \in 1..Len(food_patterns) :
                   search_phrase(message, food_patterns[k][1], food_patterns[k][2])
        THEN [value |-> TRUE, rule |-> "pattern"]
        ELSE IF is_short_statement(message)
        THEN [value |-> TRUE, rule |-> "short"]
        ELSE [value |-> FALSE, rule |-> "none"]

\* The four prefix patterns of parse_food_input, in the order of the list:
\* '^i (?:ate|...)', '^(?:today|...)', '^for (?:...)', '^my (?:...)'.
\* The list with the third pattern first.
prefix_pattern_meal_first(k) ==
    << <<"for ", meals>>,
       <<"i ", <<"ate", "had", "consumed", "eat", "have", "am having", "am eating">> >>,
       <<"", time_markers>>, <<"my ", meals>> >>[k]

prefix_pattern(k) ==
    << <<"i ", <<"ate", "had", "consumed", "eat", "have", "am having", "am eating">> >>,
       <<"", time_markers>>, <<"for ", meals>>, <<"my ", meals>> >>[k]

\* The length of the match of ^lead(?:alt1|alt2|...) at the start of the
\* text, 0 when there is none.
match_at_start(text, lead, alts) ==
    IF \E i \in 1..Len(alts) : startswith(text, lead \o alts[i])
    THEN Len(lead \o alts[CHOOSE i \in 1..Len(alts) :
                /\ startswith(text, lead \o alts[i])
                /\ \A j \in 1..(i - 1) : ~startswith(text, lead \o alts[j])])
    ELSE 0

\* re.sub(prefix, '', cleaned_message).strip()
remove_prefix(text, k) ==
    strip(text_from(text,
        match_at_start(text, prefix_pattern(k)[1], prefix_pattern(k)[2]) + 1))

\* The loop over the prefixes: the text before the first pattern and after
\* each of the first k.
RECURSIVE prefix_stages(_, _)
prefix_stages(message, k) ==
    IF k = 0 THEN <<lower(message)>>
    ELSE LET before == prefix_stages(message, k - 1)
         IN  Append(before, remove_prefix(before[k], k))

\* The delimiter with ' and ' tried before the comma.
delimiter_of_and_first(cleaned_message) ==
    IF contains(cleaned_message, " and ") THEN " and "
    ELSE IF contains(cleaned_message, ",") THEN ","
    ELSE IF contains(cleaned_message, ";") THEN ";"
    ELSE ""

\* The if/elif chain of the delimiters; "" stands for its else branch.
delimiter_of(cleaned_message) ==
    IF contains(cleaned_message, ",") THEN ","
    ELSE IF contains(cleaned_message, " and ") THEN " and "
    ELSE IF contains(cleaned_message, ";") THEN ";"
    ELSE ""

split_fragments(cleaned_message) ==
    IF delimiter_of(cleaned_message) = "" THEN <<cleaned_message>>
    ELSE split_on(cleaned_message, delimiter_of(cleaned_message))

determiners == <<"some", "a", "an", "the">>

\* The length of the longest run of whitespace at the start of a text.
RECURSIVE whitespace_prefix(_)
whitespace_prefix(s) ==
    IF s = "" \/ char_at(s, 1) \notin whitespace THEN 0
    ELSE 1 + whitespace_prefix(text_from(s, 2))

\* re.sub(r'^(?:some|a|an|the)\s+', '', item).strip()
remove_determiner(item) ==
    LET fits(i) == /\ startswith(item, determiners[i])
                   /\ whitespace_prefix(text_from(item, Len(determiners[i]) + 1)) > 0
    IN  IF \E i \in 1..Len(determiners) : fits(i)
        THEN LET i == CHOOSE i \in 1..Len(determiners) :
                        fits(i) /\ \A j \in 1..(i - 1) : ~fits(j)
                 rest == text_from(item, Len(determiners[i]) + 1)
             IN  strip(text_from(rest, whitespace_prefix(rest) + 1))
        ELSE strip(item)

qualifier_words == <<"for", "at", "during">>

\* The length of the match of (?:for|at|during)\s+(?:breakfast|...) at the
\* start of a text, 0 when there is none.
qualifier_at_start(s) ==
    LET fits(i, j) ==
            LET rest == text_from(s, Len(qualifier_words[i]) + 1)
            IN  /\ startswith(s, qualifier_words[i])
                /\ whitespace_prefix(rest) > 0
                /\ startswith(text_from(rest, whitespace_prefix(rest) + 1), meals[j])
    IN  IF \E i \in 1..Len(qualifier_words), j \in 1..Len(meals) : fits(i, j)
        THEN LET p == CHOOSE p \in (1..Len(qualifier_words)) \X (1..Len(meals)) :
                        fits(p[1], p[2])
             IN  Len(qualifier_words[p[1]])
                 + whitespace_prefix(text_from(s, Len(qualifier_words[p[1]]) + 1))
                 + Len(meals[p[2]])
        ELSE 0

\* re.sub(r'(?:for|at|during)\s+(?:breakfast|lunch|dinner|snack)', '', item)
RECURSIVE remove_qualifiers(_)
remove_qualifiers(s) ==
    IF s = "" THEN ""
    ELSE IF qualifier_at_start(s) > 0
    THEN remove_qualifiers(text_from(s, qualifier_at_start(s) + 1))
    ELSE char_at(s, 1) \o remove_qualifiers(text_from(s, 2))

clean_item(item) == strip(remove_qualifiers(remove_determiner(item)))

\* The body of the loop with an item appended only when it is not yet in
\* the list.
append_item_once(cleaned_items, item) ==
    IF clean_item(item) # ""
       /\ \A i \in 1..Len(cleaned_items) : cleaned_items[i] # clean_item(item)
    THEN Append(cleaned_items, clean_item(item))
    ELSE cleaned_items

\* The body of the loop `for item in items`: `if item: cleaned_items.append(item)`
append_item(cleaned_items, item) ==
    IF clean_item(item) # "" THEN Append(cleaned_items, clean_item(item))
    ELSE cleaned_items

RECURSIVE clean_items(_, _)
clean_items(items, n) ==
    IF n = 0 THEN <<>>
    ELSE append_item(clean_items(items, n - 1), items[n])

\* parse_food_input: the list it returns (items), with the text after each
\* prefix pattern, the delimiter of the split, and the fragments before
\* and after item.strip().
parse_food_input(message) ==
    LET stages == prefix_stages(message, 4)
        cleaned_message == stages[5]
        split == split_fragments(cleaned_message)
        stripped == [i \in 1..Len(split) |-> strip(split[i])]
    IN  [stages |-> stages, cleaned_message |-> cleaned_message,
         delimiter |-> delimiter_of(cleaned_message),
         split |-> split, fragments |-> stripped,
         items |-> clean_items(stripped, Len(stripped))]

(***************************************************************************)
(* The messages given to is_food_entry and to parse_food_input.            *)
(***************************************************************************)
IsFoodTexts ==
    { "", "?", "pizza", "pizza?", "pizza? ", "what is up?", "Is it LATE?",
      "this morning?", "today?", "THIS AFTERNOON?", "i had pizza?",
      "for lunch?", "how many calories?", "meatballs?", "two rolls\tand\njam",
      "one two three four five six seven six five four three two one two",
      "one two three four five six seven six five four three two one two three",
      "one two three four five six seven six five four three two one two ?",
      "one two three four five six seven six this evening four three two one two three",
      "one two three four five six seven six five four three two one two three four",
      "one  two\tthree four five six seven six five four three two one two\nthree",
      "i consumed one two three four five six seven six five four three two one two",
      "help", "exit?", "rice and beans", "I ATE?" }

MaxItems == 3

FragmentTexts ==
    { "eggs", "a banana", "an apple", "the", "for lunch", "some  rice at dinner", "" }

\* The comma-separated lists of up to n of the fragments.
RECURSIVE ListTexts(_)
ListTexts(n) ==
    IF n = 1 THEN FragmentTexts
    ELSE ListTexts(n - 1)
         \cup { t \o ", " \o f : t \in ListTexts(n - 1), f \in FragmentTexts }

ParseTexts ==
    { "I had oatmeal, a banana, and coffee", "rice and beans", "rice and beans; salad",
      "rice; beans", "rice;beans;corn", "rice, beans and corn; peas", "rice",
      "bread and butter and jam", "sand and candy", "I ate rice; beans and corn",
      "i had this morning eggs", "for breakfast i had eggs", "I ate my lunch",
      "this morning i had eggs", "i am having today for dinner my snack apples",
      "i had i had eggs", " i had eggs", "I HAD eggs", "today for lunch my snack",
      "my dinner  pasta and the salad", "i have a for breakfast; tea",
      "eggs and eggs", "tea;;tea" }

\* A call of is_food_entry or of parse_food_input is about to be made.
InitFood ==
    /\ prog = "cli"
    /\ food_entries = <<>>
    /\ entries = <<>>
    /\ user_metrics = EmptyDict
    /\ response = [kind |-> "none"]
    /\ food_collection = <<>>
    /\ users_collection = [d \in Days |-> [raised |-> TRUE]]
    /\ dashboard = [status |-> "none"]
    /\ today = None
    /\ \/ \E message \in IsFoodTexts :
             call = [fn |-> "is_food_entry", message |-> message, done |-> FALSE]
       \/ \E message \in ParseTexts \cup ListTexts(MaxItems) :
             call = [fn |-> "parse_food_input", message |-> message, done |-> FALSE]
    /\ returned = None

\* The call is_food_entry(message).
IsFoodEntry ==
    /\ call.fn = "is_food_entry"
    /\ ~call.done
    /\ call' = [call EXCEPT !.done = TRUE]
    /\ returned' = is_food_entry(call.message)
    /\ UNCHANGED <<prog, food_entries, entries, user_metrics, response,
                   food_collection, users_collection, dashboard, today>>

\* The call parse_food_input(message).
ParseFoodInput ==
    /\ call.fn = "parse_food_input"
    /\ ~call.done
    /\ call' = [call EXCEPT !.done = TRUE]
    /\ returned' = parse_food_input(call.message)
    /\ UNCHANGED <<prog, food_entries, entries, user_metrics, response,
                   food_collection, users_collection, dashboard, today>>

NextFood == IsFoodEntry \/ ParseFoodInput

SpecFood == InitFood /\ [][NextFood]_vars

(***************************************************************************)
(* extract_portion_info (utils/food_parser.py).  The two patterns are      *)
(* matched by re.match: anchored at the start of the text, in the case of  *)
(* the text, each part as long as the parts after it allow.  A str of the  *)
(* result that may be None is <<text>>; a float is <<"float", n, d>>, the  *)
(* fraction n/d in lowest terms.                                           *)
(***************************************************************************)
Str(s) == <<s>>

RECURSIVE gcd(_, _)
gcd(a, b) == IF b = 0 THEN a ELSE gcd(b, a % b)

RECURSIVE pow10(_)
pow10(n) == IF n = 0 THEN 1 ELSE 10 * pow10(n - 1)

\* float(text) of digits with an optional point and digits after it.
float(text) ==
    LET p == digits_prefix(text)
        fraction == text_from(text, p + 2)
        n == int(text_upto(text, p)) * pow10(Len(fraction)) + int(fraction)
        d == pow10(Len(fraction))
    IN  <<"float", n \div gcd(n, d), d \div gcd(n, d)>>

numeric_units ==
    <<"cup", "cups", "oz", "ounces", "tbsp", "tablespoons", "tsp", "teaspoons",
      "g", "grams", "lb", "pounds", "slice", "slices", "piece", "pieces">>

article_units ==
    <<"cup", "oz", "ounce", "tbsp", "tablespoon", "tsp", "teaspoon", "g", "gram",
      "lb", "pound", "slice", "piece">>

articles == <<"a", "an">>

\* The length of the match of \d+(?:\.\d+)? at the start of a text, 0 when
\* there is none: all the digits, and a point with all the digits after it.
\* (A shorter match is followed by a digit or by the point, where the \s+
\* of the pattern fails.)
number_prefix(s) ==
    LET p == digits_prefix(s)
        f == digits_prefix(text_from(s, p + 2))
    IN  IF p > 0 /\ startswith(text_from(s, p + 1), ".") /\ f > 0
        THEN p + 1 + f
        ELSE p

\* What (.+) takes: the characters up to the first newline.
RECURSIVE line_length(_)
line_length(s) ==
    IF s = "" \/ char_at(s, 1) = "\n" THEN 0
    ELSE 1 + line_length(text_from(s, 2))

first_line(s) == text_upto(s, line_length(s))

\* (?:of\s+)?(.+) at the start of a text: with "of" and the longest run of
\* whitespace that leaves a food name, else without "of".
of_food(t) ==
    LET v == IF startswith(t, "of") THEN whitespace_prefix(text_from(t, 3)) ELSE 0
        fits(j) == line_length(text_from(t, 3 + j)) > 0
    IN  IF \E j \in 1..v : fits(j)
        THEN LET j == CHOOSE j \in 1..v : fits(j) /\ \A i \in (j + 1)..v : ~fits(i)
             IN  [matched |-> TRUE, food |-> first_line(text_from(t, 3 + j))]
        ELSE IF line_length(t) > 0
        THEN [matched |-> TRUE, food |-> first_line(t)]
        ELSE [matched |-> FALSE]

\* \s+(?:of\s+)?(.+) at the start of a text: the longest run of whitespace
\* after which the rest matches.
portion_tail(s) ==
    LET w == whitespace_prefix(s)
        fits(k) == of_food(text_from(s, k + 1)).matched
    IN  IF \E k \in 1..w : fits(k)
        THEN of_food(text_from(s,
                (CHOOSE k \in 1..w : fits(k) /\ \A i \in (k + 1)..w : ~fits(i)) + 1))
        ELSE [matched |-> FALSE]

\* (unit1|unit2|...)\s+(?:of\s+)?(.+) at the start of a text: the first
\* unit of the list after which the rest matches.
unit_food(s, units) ==
    LET fits(i) == /\ startswith(s, units[i])
                   /\ portion_tail(text_from(s, Len(units[i]) + 1)).matched
    IN  IF \E i \in 1..Len(units) : fits(i)
        THEN LET i == CHOOSE i \in 1..Len(units) : fits(i) /\ \A j \in 1..(i - 1) : ~fits(j)
             IN  [matched |-> TRUE, unit |-> units[i],
                  food |-> portion_tail(text_from(s, Len(units[i]) + 1)).food]
        ELSE [matched |-> FALSE]

\* The first pattern: (\d+(?:\.\d+)?)\s+(units)\s+(?:of\s+)?(.+)
numeric_pattern(food_item) ==
    LET q == number_prefix(food_item)
        after == text_from(food_item, q + 1)
        w == whitespace_prefix(after)
        tail == unit_food(text_from(after, w + 1), numeric_units)
    IN  IF q > 0 /\ w > 0 /\ tail.matched
        THEN [matched |-> TRUE, groups |-> <<text_upto(food_item, q), tail.unit, tail.food>>]
        ELSE [matched |-> FALSE]

\* The second pattern: (?:a|an)\s+(units)\s+(?:of\s+)?(.+)
article_pattern(food_item) ==
    LET tail(i) ==
            LET after == text_from(food_item, Len(articles[i]) + 1)
                w == whitespace_prefix(after)
            IN  IF startswith(food_item, articles[i]) /\ w > 0
                THEN unit_food(text_from(after, w + 1), article_units)
                ELSE [matched |-> FALSE]
    IN  IF \E i \in 1..Len(articles) : tail(i).matched
        THEN LET i == CHOOSE i \in 1..Len(articles) :
                        tail(i).matched /\ \A j \in 1..(i - 1) : ~tail(j).matched
             IN  [matched |-> TRUE, groups |-> <<tail(i).unit, tail(i).food>>]
        ELSE [matched |-> FALSE]

portion_patterns(food_item) ==
    <<numeric_pattern(food_item), article_pattern(food_item)>>

\* The return value with 0 and '' for None.
no_portion_zero(food_item) == <<food_item, Num(0), Str("")>>

\* `return (food_item, None, None)`
no_portion(food_item) == <<food_item, None, None>>

\* The branches on len(groups) of a match.
portion_of_groups(groups) ==
    IF Len(groups) = 3 THEN <<groups[3], float(groups[1]), Str(groups[2])>>
    ELSE <<groups[2], Num(1), Str(groups[1])>>

\* extract_portion_info: the loop over the patterns, the first match
\* returns.
extract_portion_info(food_item) ==
    LET patterns == portion_patterns(food_item)
    IN  IF \E k \in 1..Len(patterns) : patterns[k].matched
        THEN portion_of_groups(
                patterns[CHOOSE k \in 1..Len(patterns) :
                    patterns[k].matched /\ \A j \in 1..(k - 1) : ~patterns[j].matched].groups)
        ELSE no_portion(food_item)

(***************************************************************************)
(* The phrases given to extract_portion_info: a quantity or an article,    *)
(* each unit word of the two patterns, with and without "of", and phrases  *)
(* that differ from these in one place.                                    *)
(***************************************************************************)
PortionQuantities == {"2", "1.5", "0.25", "10"}

UnitWords ==
    {numeric_units[i] : i \in 1..Len(numeric_units)}
        \cup {article_units[i] : i \in 1..Len(article_units)}

PortionFoods == {"rice", "brown rice"}

OddPortionTexts ==
    { "", "apple", "an apple", "a banana", "two cups of rice", "2 cups", "2 cups ",
      "2 cups  ", "2 cups of ", "2 cups of  ", "2cups rice", "2 Cups of rice",
      " 2 cups rice", "2. cups rice", ".5 cups rice", "2.50 cups rice",
      "1.5.2 cups rice", "2 cups\nrice", "2 cups rice\nmore", "2 cups \n",
      "2 cupsof rice", "2 cups ofrice", "2 g of of salt", "2\tslices  of\t bread",
      "a g rams", "A cup of rice", "a  slice\tof   bread", "a cup", "a cup ",
      "an", "a", "anounce of gold", "3 apples", "12 oz steak", "a cup of", "a of rice" }

PortionTexts ==
    { q \o " " \o u \o c \o f :
        q \in PortionQuantities \cup {"a", "an"}, u \in UnitWords,
        c \in {" of ", " "}, f \in PortionFoods }
        \cup OddPortionTexts

\* A call of extract_portion_info is about to be made.
InitPortion ==
    /\ prog = "dashboard"
    /\ food_entries = <<>>
    /\ entries = <<>>
    /\ user_metrics = EmptyDict
    /\ response = [kind |-> "none"]
    /\ food_collection = <<>>
    /\ users_collection = [d \in Days |-> [raised |-> TRUE]]
    /\ dashboard = [status |-> "none"]
    /\ today = None
    /\ \E food_item \in PortionTexts :
            call = [fn |-> "extract_portion_info", food_item |-> food_item, done |-> FALSE]
    /\ returned = None

\* The call extract_portion_info(food_item).
ExtractPortionInfo ==
    /\ call.fn = "extract_portion_info"
    /\ ~call.done
    /\ call' = [call EXCEPT !.done = TRUE]
    /\ returned' = extract_portion_info(call.food_item)
    /\ UNCHANGED <<prog, food_entries, entries, user_metrics, response,
                   food_collection, users_collection, dashboard, today>>

NextPortion == ExtractPortionInfo

SpecPortion == InitPortion /\ [][NextPortion]_vars

(***************************************************************************)
(* NutritionAPI.get_nutrition_info in detail (openai_client.py).  The      *)
(* completion of the oracle is a fault of the transport, a message without *)
(* content, or a message with a text.  A value that json.loads returns is  *)
(* None, [int |-> n], [float |-> f], [str |-> s], [bool |-> b],            *)
(* [list |-> items] or [dict |-> d], d a function over its keys; an        *)
(* exception is [raised |-> name].                                         *)
(***************************************************************************)
JSONDecodeError == [raised |-> "JSONDecodeError"]

TypeError == [raised |-> "TypeError"]

AttributeError == [raised |-> "AttributeError"]

APIError == [raised |-> "APIError"]

is_raised(v) == v # None /\ DOMAIN v = {"raised"}

isinstance(v, type) == v # None /\ DOMAIN v = {type}

\* The texts that json.loads reads, and the values it gives them; it
\* raises JSONDecodeError on every other text of the model.
JsonDocuments ==
    [text \in
        { "{\"calories\": 250, \"protein\": 10, \"carbohydrates\": 30, \"fat\": 9, \"fiber\": 3, \"sugar\": 5, \"sodium\": 200}",
          "{\"calories\": 250}", "{}", "[1, 2]", "42", "1.5", "\"calories\"", "null", "true",
          "{\"calories\": \"250 kcal\", \"protein\": \"10.5g\", \"fat\": \"unknown\", \"sodium\": null}",
          "{\"calories\": \"about 10-20\", \"protein\": \"1.5.2\", \"fat\": \".5\", \"sugar\": \"\", \"fiber\": \"7.\"}",
          "{\"calories\": [250], \"protein\": {\"g\": 10}, \"fat\": true, \"sugar\": 1.5}",
          "{\"Calories\": 250, \"food_item\": \"soup\"}",
          "[\"calories\", \"protein\", \"carbohydrates\", \"fat\", \"fiber\", \"sugar\", \"sodium\"]",
          "\"calories protein carbohydrates fat fiber sugar sodium\"" } |->
        CASE text = "{\"calories\": 250, \"protein\": 10, \"carbohydrates\": 30, \"fat\": 9, \"fiber\": 3, \"sugar\": 5, \"sodium\": 200}" ->
                [dict |-> [calories |-> [int |-> 250], protein |-> [int |-> 10],
                           carbohydrates |-> [int |-> 30], fat |-> [int |-> 9],
                           fiber |-> [int |-> 3], sugar |-> [int |-> 5],
                           sodium |-> [int |-> 200]]]
          [] text = "{\"calories\": 250}" -> [dict |-> [calories |-> [int |-> 250]]]
          [] text = "{}" -> [dict |-> <<>>]
          [] text = "[1, 2]" -> [list |-> <<[int |-> 1], [int |-> 2]>>]
          [] text = "42" -> [int |-> 42]
          [] text = "1.5" -> [float |-> <<"float", 3, 2>>]
          [] text = "\"calories\"" -> [str |-> "calories"]
          [] text = "null" -> None
          [] text = "true" -> [bool |-> TRUE]
          [] text = "{\"calories\": \"250 kcal\", \"protein\": \"10.5g\", \"fat\": \"unknown\", \"sodium\": null}" ->
                [dict |-> [calories |-> [str |-> "250 kcal"], protein |-> [str |-> "10.5g"],
                           fat |-> [str |-> "unknown"], sodium |-> None]]
          [] text = "{\"calories\": \"about 10-20\", \"protein\": \"1.5.2\", \"fat\": \".5\", \"sugar\": \"\", \"fiber\": \"7.\"}" ->
                [dict |-> [calories |-> [str |-> "about 10-20"], protein |-> [str |-> "1.5.2"],
                           fat |-> [str |-> ".5"], sugar |-> [str |-> ""],
                           fiber |-> [str |-> "7."]]]
          [] text = "{\"calories\": [250], \"protein\": {\"g\": 10}, \"fat\": true, \"sugar\": 1.5}" ->
                [dict |-> [calories |-> [list |-> <<[int |-> 250]>>],
                           protein |-> [dict |-> [g |-> [int |-> 10]]],
                           fat |-> [bool |-> TRUE], sugar |-> [float |-> <<"float", 3, 2>>]]]
          [] text = "{\"Calories\": 250, \"food_item\": \"soup\"}" ->
                [dict |-> [Calories |-> [int |-> 250], food_item |-> [str |-> "soup"]]]
          [] text = "[\"calories\", \"protein\", \"carbohydrates\", \"fat\", \"fiber\", \"sugar\", \"sodium\"]" ->
                [list |-> [i \in 1..Len(Nutrients) |-> [str |-> Nutrients[i]]]]
          [] text = "\"calories protein carbohydrates fat fiber sugar sodium\"" ->
                [str |-> "calories protein carbohydrates fat fiber sugar sodium"]]

\* json.loads(content) of the reply.
json_loads_content(text) ==
    IF text \in DOMAIN JsonDocuments THEN JsonDocuments[text] ELSE JSONDecodeError

\* re.search(r'({.*})', content, re.DOTALL): the text from the first "{"
\* that has a "}" after it to the last "}"; None when there is none.
json_match(content) ==
    LET opens == {i \in 1..Len(content) :
                    /\ char_at(content, i) = "{"
                    /\ \E j \in (i + 1)..Len(content) : char_at(content, j) = "}"}
    IN  IF opens = {} THEN None
        ELSE LET i == CHOOSE i \in opens : \A k \in opens : i <= k
                 j == CHOOSE j \in (i + 1)..Len(content) :
                        /\ char_at(content, j) = "}"
                        /\ \A k \in (j + 1)..Len(content) : char_at(content, k) # "}"
             IN  [str |-> SubSeq(content, i, j)]

\* re.search(r'(\d+\.?\d*)', text): the first run of digits, with a point
\* after it when there is one and the digits after the point; None when
\* the text has no digit.
numeric_match(text) ==
    IF \E i \in 1..Len(text) : is_digit(char_at(text, i))
    THEN LET i == CHOOSE i \in 1..Len(text) :
                    /\ is_digit(char_at(text, i))
                    /\ \A k \in 1..(i - 1) : ~is_digit(char_at(text, k))
             rest == text_from(text, i)
             p == digits_prefix(rest)
             f == IF startswith(text_from(rest, p + 1), ".")
                  THEN 1 + digits_prefix(text_from(rest, p + 2))
                  ELSE 0
         IN  [str |-> text_upto(rest, p + f)]
    ELSE None

\* The second loop of _validate_nutrition_data on one value: a str becomes
\* the float of its first number, or None.
numeric_of(value) ==
    IF isinstance(value, "str")
    THEN IF numeric_match(value.str) # None
         THEN [float |-> float(numeric_match(value.str).str)]
         ELSE None
    ELSE value

\* _validate_nutrition_data(data, food_item).  On a list or a str either
\* `data[field] = None` or `data[field]` raises TypeError, on a number, a
\* bool or None `field not in data` does.
NutritionAPI_validate_nutrition_data(data, food_item) ==
    IF isinstance(data, "dict")
    THEN [k \in DOMAIN data.dict \cup NutrientSet \cup {"food_item"} |->
            IF k = "food_item" THEN [str |-> food_item]
            ELSE IF k \notin DOMAIN data.dict THEN None
            ELSE IF k \in NutrientSet THEN numeric_of(data.dict[k])
            ELSE data.dict[k]]
    ELSE TypeError

\* The handler with the exception passed on to the caller.
except_nothing(outcome) == outcome

\* `except Exception as e: ... return self._get_default_nutrition_data()`
except_exception(outcome) ==
    IF is_raised(outcome) THEN _get_default_nutrition_data ELSE outcome

\* The body of the try block of get_nutrition_info: the return value, or
\* the exception that leaves the block.
get_nutrition_info_body(food_item, completion) ==
    IF is_raised(completion) THEN completion
    ELSE IF completion.content = None THEN AttributeError
    ELSE LET content == strip(completion.content.str)
             nutrition_data == json_loads_content(content)
         IN  IF nutrition_data # JSONDecodeError
             THEN NutritionAPI_validate_nutrition_data(nutrition_data, food_item)
             ELSE IF json_match(content) # None
             THEN IF json_loads_content(json_match(content).str) # JSONDecodeError
                  THEN NutritionAPI_validate_nutrition_data(
                            json_loads_content(json_match(content).str), food_item)
                  ELSE _get_default_nutrition_data
             ELSE _get_default_nutrition_data

NutritionAPI_get_nutrition_info(food_item, completion) ==
    except_exception(get_nutrition_info_body(food_item, completion))

(***************************************************************************)
(* The completions of the oracle: a fault, no content, the documents, and  *)
(* texts that are not JSON, with and without a document inside.            *)
(***************************************************************************)
OtherContents ==
    { "", "   ", "I am sorry, I cannot help.", "calories: 250",
      "Here is the data: {\"calories\": 250} Enjoy!",
      "json:\n{\"calories\": 250}\n--", "  {\"calories\": 250}\n",
      "Use {braces} wisely", "{\"calories\": 250} and {\"calories\": 250}",
      "} {", "{'calories': 250}", "{", "{\"calories\": 250", "{}{}" }

Completions ==
    { APIError, [content |-> None] }
        \cup { [content |-> [str |-> text]] : text \in DOMAIN JsonDocuments \cup OtherContents }

OracleFoods == {"stew", "oatmeal", "2 cups of rice"}

\* A call of get_nutrition_info is about to be made.
InitOracle ==
    /\ prog = "cli"
    /\ food_entries = <<>>
    /\ entries = <<>>
    /\ user_metrics = EmptyDict
    /\ response = [kind |-> "none"]
    /\ food_collection = <<>>
    /\ users_collection = [d \in Days |-> [raised |-> TRUE]]
    /\ dashboard = [status |-> "none"]
    /\ today = None
    /\ \E food_item \in OracleFoods, completion \in Completions :
            call = [fn |-> "get_nutrition_info", food_item |-> food_item,
                    completion |-> completion, done |-> FALSE]
    /\ returned = None

\* The call get_nutrition_info(food_item), the oracle answering with the
\* completion.
GetNutritionInfo ==
    /\ call.fn = "get_nutrition_info"
    /\ ~call.done
    /\ call' = [call EXCEPT !.done = TRUE]
    /\ returned' = NutritionAPI_get_nutrition_info(call.food_item, call.completion)
    /\ UNCHANGED <<prog, food_entries, entries, user_metrics, response,
                   food_collection, users_collection, dashboard, today>>

NextOracle == GetNutritionInfo

SpecOracle == InitOracle /\ [][NextOracle]_vars

(***************************************************************************)
(* _process_food_entry (message_handler.py) and the two functions it       *)
(* calls for every item.  add_food_entry answers False when the store      *)
(* cannot be written, and nothing is inserted then.  What the handler      *)
(* called, with which arguments and with which results, is kept in order   *)
(* beside its response.                                                    *)
(***************************************************************************)
\* add_food_entry with the new row in the place of the rows of the table.
add_food_entry_replacing(table, food_item, nutrition_data, now, writable) ==
    IF writable
    THEN [table |-> <<add_food_entry_row(Len(table) + 1, food_item, nutrition_data, now)>>,
          result |-> TRUE]
    ELSE [table |-> table, result |-> FALSE]

\* add_food_entry(food_item, nutrition_data): the table afterwards and the
\* value returned.
add_food_entry(table, food_item, nutrition_data, now, writable) ==
    IF writable
    THEN [table |-> Append(table,
                        add_food_entry_row(Len(table) + 1, food_item, nutrition_data, now)),
          result |-> TRUE]
    ELSE [table |-> table, result |-> FALSE]

\* str(n) of an int that is not negative.
RECURSIVE format_int(_)
format_int(n) ==
    IF n < 10 THEN char_at(digits, n + 1)
    ELSE format_int(n \div 10) \o char_at(digits, (n % 10) + 1)

\* The response of one item.
item_response(food, nutrition_data) ==
    "Added " \o food \o " to your food log. "
        \o (IF Truthy(dict_get(nutrition_data, "calories"))
            THEN "(Calories: " \o format_int(Val(dict_get(nutrition_data, "calories"))) \o ")"
            ELSE "")

\* The body of the loop with an item skipped when the oracle failed.
process_item_unless_failed(before, food, reply, now, writable) ==
    IF reply.fault THEN before
    ELSE LET nutrition_data == get_nutrition_info(reply)
             added == add_food_entry(before.table, food, nutrition_data, now, writable)
         IN  [table |-> added.table,
              all_responses |-> Append(before.all_responses,
                                       item_response(food, nutrition_data)),
              calls |-> before.calls \o
                  <<[fn |-> "get_nutrition_info", food_item |-> food,
                     returned |-> nutrition_data],
                    [fn |-> "add_food_entry", food_item |-> food,
                     nutrition_data |-> nutrition_data, returned |-> added.result]>>]

\* The body of the loop `for food in food_items`.
process_item(before, food, reply, now, writable) ==
    LET nutrition_data == get_nutrition_info(reply)
        added == add_food_entry(before.table, food, nutrition_data, now, writable)
    IN  [table |-> added.table,
         all_responses |-> Append(before.all_responses,
                                  item_response(food, nutrition_data)),
         calls |-> before.calls \o
             <<[fn |-> "get_nutrition_info", food_item |-> food,
                returned |-> nutrition_data],
               [fn |-> "add_food_entry", food_item |-> food,
                nutrition_data |-> nutrition_data, returned |-> added.result]>>]

\* The loop over the first n items; the oracle answers the i-th call with
\* replies[i] and the store takes the i-th write when writable[i].
RECURSIVE process_items(_, _, _, _, _, _)
process_items(table, food_items, replies, now, writable, n) ==
    IF n = 0 THEN [table |-> table, all_responses |-> <<>>, calls |-> <<>>]
    ELSE process_item(process_items(table, food_items, replies, now, writable, n - 1),
                      food_items[n], replies[n], now, writable[n])

\* "\n".join(lines)
RECURSIVE join_lines(_)
join_lines(lines) ==
    IF lines = <<>> THEN ""
    ELSE IF Len(lines) = 1 THEN lines[1]
    ELSE join_lines(SubSeq(lines, 1, Len(lines) - 1)) \o "\n" \o lines[Len(lines)]

_process_food_entry(message, table, replies, now, writable) ==
    LET food_items == parse_food_input(message).items
        done == process_items(table, food_items, replies, now, writable, Len(food_items))
    IN  IF food_items = <<>>
        THEN [table |-> table, calls |-> <<>>,
              response |-> [kind |-> "no_items",
                            text |-> "I couldn't identify any food items in your message. Please try again."]]
        ELSE [table |-> done.table, calls |-> done.calls,
              response |-> [kind |-> "added", all_responses |-> done.all_responses,
                            text |-> join_lines(done.all_responses)
                                     \o "\n\nIs there anything else you ate today?"]]

(***************************************************************************)
(* The messages of a food entry, what the oracle replies to each item and  *)
(* whether the store takes each write.                                     *)
(***************************************************************************)
EntryMessages ==
    { "I had oatmeal, a banana, and coffee", "rice and beans", "eggs", "I ate",
      "eggs and eggs", "for lunch i had soup; salad" }

EntryReplies ==
    { [fault |-> TRUE], [fault |-> FALSE, data |-> FullRecord],
      [fault |-> FALSE, data |-> ZeroRecord] }

EntryInstant == [day |-> 1, hour |-> 13, minute |-> 59, second |-> 59, ms |-> 0]

\* A message that is a food entry is about to be handled.
InitEntry ==
    /\ prog = "cli"
    /\ food_entries = <<>>
    /\ entries = <<>>
    /\ user_metrics = EmptyDict
    /\ response = [kind |-> "none"]
    /\ food_collection = <<>>
    /\ users_collection = [d \in Days |-> [raised |-> TRUE]]
    /\ dashboard = [status |-> "none"]
    /\ today = None
    /\ \E message \in EntryMessages :
         \E replies \in [1..Len(parse_food_input(message).items) -> EntryReplies],
            writable \in [1..Len(parse_food_input(message).items) -> BOOLEAN] :
            call = [fn |-> "_process_food_entry", message |-> message,
                    replies |-> replies, writable |-> writable, done |-> FALSE]
    /\ returned = None

\* _process_food_entry(message).
ProcessFoodEntry ==
    /\ call.fn = "_process_food_entry"
    /\ ~call.done
    /\ LET done == _process_food_entry(call.message, food_entries, call.replies,
                                       EntryInstant, call.writable)
       IN  /\ food_entries' = done.table
           /\ response' = done.response
           /\ returned' = done.calls
    /\ call' = [call EXCEPT !.done = TRUE]
    /\ UNCHANGED <<prog, entries, user_metrics, food_collection, users_collection,
                   dashboard, today>>

NextEntry == ProcessFoodEntry

SpecEntry == InitEntry /\ [][NextEntry]_vars

(***************************************************************************)
(* The SQL store under a clock that does not go back, and the two commands *)
(* that read it.  get_daily_entries catches every exception of the read    *)
(* and returns [] then.  `today` is the last reading of the clock, `call`  *)
(* keeps the calls of add_food_entry made so far and `returned` the last   *)
(* call and its result.                                                    *)
(***************************************************************************)
MaxAdds == 2

StoreInstants ==
    { t \in Instants :
        \/ t.hour \in {0, 23}
        \/ t.day = 1 /\ t.hour = 13 }

\* get_daily_entries(date) with its `except Exception: return []`.
get_daily_entries_caught(table, date, readable) ==
    IF readable THEN get_daily_entries(table, date) ELSE <<>>

\* _get_today_entries, date.today() being now_date: the entries it got and
\* its answer.
_get_today_entries(table, now_date, readable) ==
    LET fetched == get_daily_entries_caught(table, now_date, readable)
    IN  [entries |-> fetched,
         response |->
            IF fetched = <<>> THEN [kind |-> "no_entries_today"]
            ELSE [kind |-> "food_log",
                  formatted_entries |->
                     [i \in 1..Len(fetched) |->
                        [food_item |-> fetched[i].food_item,
                         calories |-> dict_get_default(fetched[i].nutrition_data,
                                                       "calories", <<"unknown">>),
                         time |-> <<fetched[i].timestamp.hour,
                                    fetched[i].timestamp.minute>>]]]]

\* The clock has not gone back since its last reading.
not_before(now, last) ==
    IF last = None THEN TRUE ELSE DatetimeKey(now) >= DatetimeKey(last)

InitStore ==
    /\ prog = "cli"
    /\ food_entries = <<>>
    /\ entries = <<>>
    /\ user_metrics = EmptyDict
    /\ response = [kind |-> "none"]
    /\ food_collection = <<>>
    /\ users_collection = [d \in Days |-> [raised |-> TRUE]]
    /\ dashboard = [status |-> "none"]
    /\ today = None
    /\ call = [fn |-> "add_food_entry", added |-> <<>>]
    /\ returned = None

\* add_food_entry(food_item, nutrition_data), the clock reading `now`.
StoreAdd ==
    /\ Len(call.added) < MaxAdds
    /\ \E input \in FoodInputs, now \in StoreInstants, writable \in BOOLEAN :
          /\ not_before(now, today)
          /\ LET done == add_food_entry(food_entries, input[1], input[2], now, writable)
             IN  /\ food_entries' = done.table
                 /\ call' = [call EXCEPT !.added = Append(@,
                                [food_item |-> input[1], nutrition_data |-> input[2],
                                 now |-> now, result |-> done.result])]
                 /\ returned' = [fn |-> "add_food_entry", result |-> done.result]
          /\ today' = now
    /\ entries' = <<>>
    /\ response' = [kind |-> "none"]
    /\ UNCHANGED <<prog, user_metrics, food_collection, users_collection, dashboard>>

\* get_daily_entries(date).
StoreRead ==
    /\ \E date \in Days, readable \in BOOLEAN :
          /\ entries' = get_daily_entries_caught(food_entries, date, readable)
          /\ returned' = [fn |-> "get_daily_entries", date |-> date, readable |-> readable]
    /\ response' = [kind |-> "none"]
    /\ UNCHANGED <<prog, food_entries, user_metrics, food_collection, users_collection,
                   dashboard, today, call>>

\* The command "analyze <date>" for a date that parse_date reads.
StoreAnalyze ==
    /\ \E date \in Days, readable \in BOOLEAN :
          /\ entries' = get_daily_entries_caught(food_entries, date, readable)
          /\ response' = generate_analysis(date, entries', user_metrics)
          /\ returned' = [fn |-> "_generate_analysis", date |-> date, readable |-> readable]
    /\ UNCHANGED <<prog, food_entries, user_metrics, food_collection, users_collection,
                   dashboard, today, call>>

\* The command "today", the clock reading `now`.
StoreToday ==
    /\ \E now \in StoreInstants, readable \in BOOLEAN :
          /\ not_before(now, today)
          /\ LET done == _get_today_entries(food_entries, strftime_date(now), readable)
             IN  /\ entries' = done.entries
                 /\ response' = done.response
          /\ returned' = [fn |-> "_get_today_entries", date |-> strftime_date(now),
                          readable |-> readable]
          /\ today' = now
    /\ UNCHANGED <<prog, food_entries, user_metrics, food_collection, users_collection,
                   dashboard, call>>

NextStore == StoreAdd \/ StoreRead \/ StoreAnalyze \/ StoreToday

SpecStore == InitStore /\ [][NextStore]_vars

(***************************************************************************)
(* FoodEntry (database/models.py): the dataclass and its __post_init__,    *)
(* which reads date.today() and then datetime.now() for the fields that    *)
(* were not supplied.  A date is Date(day).                                *)
(***************************************************************************)
\* FoodEntry(food_item=..., date=date_arg, timestamp=timestamp_arg), the
\* clock reading date_today and then datetime_now.
FoodEntry(food_item, date_arg, timestamp_arg, date_today, datetime_now) ==
    [id |-> None, food_item |-> food_item, nutrition_data |-> None,
     date |-> IF date_arg = None THEN date_today ELSE date_arg,
     timestamp |-> IF timestamp_arg = None THEN datetime_now ELSE timestamp_arg]

\* A FoodEntry is about to be built, or add_food_entry to be called.
InitModels ==
    /\ prog = "cli"
    /\ food_entries = <<>>
    /\ entries = <<>>
    /\ user_metrics = EmptyDict
    /\ response = [kind |-> "none"]
    /\ food_collection = <<>>
    /\ users_collection = [d \in Days |-> [raised |-> TRUE]]
    /\ dashboard = [status |-> "none"]
    /\ today = None
    /\ \/ \E date_arg \in {None} \cup {Date(d) : d \in Days},
             timestamp_arg \in {None} \cup StoreInstants,
             first \in StoreInstants, second \in StoreInstants :
             /\ not_before(second, first)
             /\ call = [fn |-> "FoodEntry", date |-> date_arg, timestamp |-> timestamp_arg,
                        clock |-> <<first, second>>, done |-> FALSE]
       \/ \E input \in FoodInputs, now \in Instants, writable \in BOOLEAN :
             call = [fn |-> "add_food_entry", food_item |-> input[1],
                     nutrition_data |-> input[2], clock |-> <<now>>,
                     writable |-> writable, done |-> FALSE]
    /\ returned = None

\* FoodEntry(food_item="eggs", date=..., timestamp=...)
NewFoodEntry ==
    /\ call.fn = "FoodEntry"
    /\ ~call.done
    /\ call' = [call EXCEPT !.done = TRUE]
    /\ returned' = FoodEntry("eggs", call.date, call.timestamp,
                             Date(strftime_date(call.clock[1])), call.clock[2])
    /\ today' = call.clock[2]
    /\ UNCHANGED <<prog, food_entries, entries, user_metrics, response,
                   food_collection, users_collection, dashboard>>

\* add_food_entry(food_item, nutrition_data)
AddOneEntry ==
    /\ call.fn = "add_food_entry"
    /\ ~call.done
    /\ LET done == add_food_entry(food_entries, call.food_item, call.nutrition_data,
                                  call.clock[1], call.writable)
       IN  /\ food_entries' = done.table
           /\ returned' = [result |-> done.result]
    /\ call' = [call EXCEPT !.done = TRUE]
    /\ today' = call.clock[1]
    /\ UNCHANGED <<prog, entries, user_metrics, response, food_collection,
                   users_collection, dashboard>>

NextModels == NewFoodEntry \/ AddOneEntry

SpecModels == InitModels /\ [][NextModels]_vars

(***************************************************************************)
(* MongoDBClient.get_monthly_summary (mongo_operations.py).  A datetime is *)
(* its year, month, day and time of day; two datetimes compare field by    *)
(* field in this order.  $sum adds the numbers of a field and passes over  *)
(* a null or a missing one.                                                *)
(***************************************************************************)
MaxDocs == 2

is_leap(year) == (year % 4 = 0 /\ year % 100 # 0) \/ year % 400 = 0

days_in_month(year, month) ==
    IF month = 2 THEN (IF is_leap(year) THEN 29 ELSE 28)
    ELSE IF month \in {4, 6, 9, 11} THEN 30
    ELSE 31

ValueError == [raised |-> "ValueError"]

\* datetime(year, month, day)
datetime(year, month, day) ==
    IF month \in 1..12 /\ day \in 1..days_in_month(year, month)
    THEN [year |-> year, month |-> month, day |-> day,
          hour |-> 0, minute |-> 0, second |-> 0, ms |-> 0]
    ELSE ValueError

\* A datetime whose day has left its month, carried into the months
\* before or after.
RECURSIVE carry_days(_)
carry_days(t) ==
    IF t.day < 1
    THEN LET year == IF t.month = 1 THEN t.year - 1 ELSE t.year
             month == IF t.month = 1 THEN 12 ELSE t.month - 1
         IN  carry_days([t EXCEPT !.year = year, !.month = month,
                                  !.day = t.day + days_in_month(year, month)])
    ELSE IF t.day > days_in_month(t.year, t.month)
    THEN carry_days([t EXCEPT !.year = IF t.month = 12 THEN t.year + 1 ELSE t.year,
                              !.month = IF t.month = 12 THEN 1 ELSE t.month + 1,
                              !.day = t.day - days_in_month(t.year, t.month)])
    ELSE t

\* t + timedelta(days=n)
plus_days(t, n) == carry_days([t EXCEPT !.day = t.day + n])

datetime_fields(t) == <<t.year, t.month, t.day, t.hour, t.minute, t.second, t.ms>>

RECURSIVE tuple_le(_, _)
tuple_le(a, b) ==
    IF a = <<>> THEN TRUE
    ELSE IF a[1] # b[1] THEN a[1] < b[1]
    ELSE tuple_le(Tail(a), Tail(b))

\* a <= b for two datetimes
datetime_le(a, b) == tuple_le(datetime_fields(a), datetime_fields(b))

\* end = start + timedelta(days=31); end = end.replace(day=1) - timedelta(days=1)
month_end(start) ==
    plus_days([plus_days(start, 31) EXCEPT !.day = 1], -1)

\* {"$dateToString": {"format": "%Y-%m-%d", "date": "$timestamp"}}
date_to_string(t) == <<t.year, t.month, t.day>>

\* {"$sum": "$nutrition.<key>"} over the documents of a group
RECURSIVE sum_field(_, _)
sum_field(docs, key) ==
    IF docs = <<>> THEN 0
    ELSE (IF key \in DOMAIN docs[1].nutrition /\ docs[1].nutrition[key] # None
          THEN Val(docs[1].nutrition[key]) ELSE 0)
         + sum_field(Tail(docs), key)

\* $group and $sort: one document per day that has a matched document, in
\* ascending order of the day.
RECURSIVE group_by_day(_)
group_by_day(docs) ==
    IF docs = <<>> THEN <<>>
    ELSE LET first == CHOOSE i \in 1..Len(docs) :
                        \A j \in 1..Len(docs) :
                            tuple_le(date_to_string(docs[i].timestamp),
                                     date_to_string(docs[j].timestamp))
             day == date_to_string(docs[first].timestamp)
             of_day == SelectSeq(docs, LAMBDA e : date_to_string(e.timestamp) = day)
             others == SelectSeq(docs, LAMBDA e : date_to_string(e.timestamp) # day)
         IN  <<[_id |-> day,
                total_calories |-> sum_field(of_day, "calories"),
                total_protein |-> sum_field(of_day, "protein"),
                total_carbs |-> sum_field(of_day, "carbs"),
                total_fat |-> sum_field(of_day, "fat")]>>
             \o group_by_day(others)

\* get_monthly_summary(user_id, year, month); [] when an exception is
\* caught.
get_monthly_summary(collection, user_id, year, month) ==
    LET start == datetime(year, month, 1)
    IN  IF start = ValueError THEN <<>>
        ELSE group_by_day(SelectSeq(collection,
                LAMBDA e : /\ e.user_id = user_id
                           /\ datetime_le(start, e.timestamp)
                           /\ datetime_le(e.timestamp, month_end(start))))

(***************************************************************************)
(* The documents of the collection: meals of two users, logged at the      *)
(* first and the last instants of months of 28, 29, 30 and 31 days, during *)
(* their last days, and in the months beside them.                         *)
(***************************************************************************)
MonthInstants ==
    { [year |-> t[1], month |-> t[2], day |-> t[3], hour |-> t[4], minute |-> t[5],
       second |-> t[6], ms |-> t[7]] :
        t \in { <<2023, 2, 28, 12, 0, 0, 0>>, <<2023, 3, 1, 0, 0, 0, 0>>,
                <<2024, 1, 31, 23, 59, 59, 999>>, <<2024, 2, 1, 0, 0, 0, 0>>,
                <<2024, 2, 29, 0, 0, 0, 0>>, <<2024, 2, 29, 18, 30, 0, 0>>,
                <<2024, 4, 15, 12, 0, 0, 0>>, <<2024, 4, 30, 0, 0, 0, 1>>,
                <<2023, 12, 31, 8, 0, 0, 0>> } }

MonthUsers == {UserId, "guest"}

MonthMeal == [calories |-> Num(2), protein |-> Num(1), carbs |-> None, fat |-> Num(1)]

MonthDocuments ==
    { [user_id |-> u, food_item |-> "oatmeal", nutrition |-> MonthMeal, timestamp |-> t] :
        u \in MonthUsers, t \in MonthInstants }

MonthCalls ==
    { <<2023, 2>>, <<2024, 2>>, <<2024, 4>>, <<2024, 1>>, <<2023, 12>>, <<2024, 13>> }

RECURSIVE Collections(_)
Collections(n) ==
    IF n = 0 THEN {<<>>}
    ELSE Collections(n - 1)
         \cup { Append(c, e) : c \in Collections(n - 1), e \in MonthDocuments }

\* The dashboard asks for the summary of a month of a collection of up to
\* MaxDocs documents.
InitMonth ==
    /\ prog = "dashboard"
    /\ food_entries = <<>>
    /\ entries = <<>>
    /\ user_metrics = EmptyDict
    /\ response = [kind |-> "none"]
    /\ food_collection \in Collections(MaxDocs)
    /\ users_collection = [d \in Days |-> [raised |-> TRUE]]
    /\ dashboard = [status |-> "none"]
    /\ today = None
    /\ \E user_id \in MonthUsers, m \in MonthCalls :
            call = [fn |-> "get_monthly_summary", user_id |-> user_id,
                    year |-> m[1], month |-> m[2], done |-> FALSE]
    /\ returned = None

\* get_monthly_summary(user_id, year, month)
GetMonthlySummary ==
    /\ call.fn = "get_monthly_summary"
    /\ ~call.done
    /\ call' = [call EXCEPT !.done = TRUE]
    /\ returned' = get_monthly_summary(food_collection, call.user_id, call.year, call.month)
    /\ UNCHANGED <<prog, food_entries, entries, user_metrics, response,
                   food_collection, users_collection, dashboard, today>>

NextMonth == GetMonthlySummary

SpecMonth == InitMonth /\ [][NextMonth]_vars

(***************************************************************************)
(* Properties.  What a property expects is written here from the          *)
(* statement, not with the operators of the model above.                   *)
(***************************************************************************)
\* The entry's value of a nutrient, a missing or null value counting as 0.
ValueOrZero(nutrition, k) ==
    IF k \notin DOMAIN nutrition THEN 0
    ELSE IF nutrition[k] = None THEN 0
    ELSE nutrition[k][1]

RECURSIVE SumOver(_, _, _)
SumOver(entry_list, k, n) ==
    IF n = 0 THEN 0
    ELSE SumOver(entry_list, k, n - 1) + ValueOrZero(entry_list[n].nutrition_data, k)

MissingOrNull(nutrition, k) ==
    \/ k \notin DOMAIN nutrition
    \/ nutrition[k] = None

Analysed == prog = "cli" /\ entries # <<>>

\* C1: the report of analyze_daily_nutrition has, for each of the seven
\* nutrients, the sum over all the entries of the entry's value, a missing
\* or null value counting as 0, every entry counted once.
C1_TotalsAreSums ==
    Analysed =>
        /\ response.kind = "analysis"
        /\ \A k \in {"calories", "protein", "carbohydrates", "fat", "fiber",
                     "sugar", "sodium"} :
              response.totals[k] = SumOver(entries, k, Len(entries))

\* C1's case: two entries, one of them without protein, the other with it.
C1_Witness ==
    /\ Analysed
    /\ Len(entries) = 2
    /\ response.kind = "analysis"
    /\ \E i, j \in 1..2 :
          /\ MissingOrNull(entries[i].nutrition_data, "carbohydrates")
          /\ ~MissingOrNull(entries[j].nutrition_data, "carbohydrates")
    /\ response.totals["calories"] = 5

\* C2: the note of unavailable values is in the report if and only if some
\* nutrient is missing or null in some entry (a value of 0 is neither), and
\* the flag, once set in the loop over the entries, stays set.
C2_FlagIffMissing ==
    Analysed =>
        /\ response.kind = "analysis"
        /\ response.note <=>
              \E i \in 1..Len(entries) :
                 \E k \in {"calories", "protein", "carbohydrates", "fat", "fiber",
                           "sugar", "sodium"} :
                    MissingOrNull(entries[i].nutrition_data, k)
        /\ \A n \in 1..Len(entries) :
              analyze_loop(entries, n - 1).unknown_values
                  => analyze_loop(entries, n).unknown_values

\* C2's case: the first entry has null values, the second has every value,
\* one of them 0, and the note is in the report.
C2_Witness ==
    /\ Analysed
    /\ Len(entries) = 2
    /\ entries[1].nutrition_data["calories"] = None
    /\ \A k \in NutrientSet : ~MissingOrNull(entries[2].nutrition_data, k)
    /\ entries[2].nutrition_data["fiber"] = <<0>>
    /\ analyze_loop(entries, 1).unknown_values
    /\ response.note

\* The rows of the SQL table and the documents of the collection whose
\* timestamp falls on a day.
RowsOfDay(d) == { i \in 1..Len(food_entries) : food_entries[i].timestamp.day = d }

DocsOfDay(d) == { i \in 1..Len(food_collection) : food_collection[i].timestamp.day = d }

\* The SQL half of C3: get_daily_entries(d) returns the rows whose timestamp
\* falls on d, each once, and no other row.
SqlEntriesOfExactlyTheirDay ==
    \A d \in Days :
        LET result == get_daily_entries(food_entries, d)
        IN  /\ Len(result) = Cardinality(RowsOfDay(d))
            /\ \A i \in RowsOfDay(d) :
                  Cardinality({ j \in 1..Len(result) : result[j].id = i }) = 1

\* The document half of C3: MongoDBClient.get_daily_entries(d) returns the
\* documents whose timestamp falls on d, each once, and no other document.
MongoEntriesOfExactlyTheirDay ==
    \A d \in Days :
        LET result == mongo_get_daily_entries(food_collection, UserId, d)
        IN  /\ Len(result) = Cardinality(DocsOfDay(d))
            /\ \A j \in 1..Len(result) : result[j].timestamp.day = d

\* C3: every stored entry is returned by the daily-entries query of the
\* calendar date of its timestamp and of no other date, whatever the time of
\* day, in the SQL store and in the document store.
C3_EntryInExactlyItsDay ==
    SqlEntriesOfExactlyTheirDay /\ MongoEntriesOfExactlyTheirDay

\* The sum of a field over documents, a null counting as 0.
RECURSIVE DocSum(_, _, _)
DocSum(docs, key, n) ==
    IF n = 0 THEN 0
    ELSE DocSum(docs, key, n - 1) +
         (IF docs[n].nutrition[key] = None THEN 0 ELSE docs[n].nutrition[key][1])

SelectedEntries ==
    mongo_get_daily_entries(food_collection, UserId, dashboard.selected_date)

\* C4: once an item whose estimate failed is logged through the dashboard,
\* every aggregation over the day's entries completes and counts the null
\* fields as 0: the daily summary is written, and the calorie progress and
\* the macro sums are shown.
C4_NullNeverFaults ==
    (prog = "dashboard" /\ dashboard.status # "none") =>
        /\ dashboard.status = "ok"
        /\ dashboard.consumed_calories =
              DocSum(SelectedEntries, "calories", Len(SelectedEntries))
        /\ dashboard.protein = DocSum(SelectedEntries, "protein", Len(SelectedEntries))
        /\ dashboard.carbs = DocSum(SelectedEntries, "carbs", Len(SelectedEntries))
        /\ dashboard.fat = DocSum(SelectedEntries, "fat", Len(SelectedEntries))
        /\ \A d \in Days :
              DocsOfDay(d) # {} =>
                 LET docs == mongo_get_daily_entries(food_collection, UserId, d)
                 IN  /\ ~users_collection[d].raised
                     /\ users_collection[d].total_calories =
                           DocSum(docs, "calories", Len(docs))

\* The macro calories of the analysed entries and of the selected day.
MacroCalories ==
    SumOver(entries, "protein", Len(entries)) * 4
    + SumOver(entries, "carbohydrates", Len(entries)) * 4
    + SumOver(entries, "fat", Len(entries)) * 9

ChartCalories ==
    DocSum(SelectedEntries, "protein", Len(SelectedEntries)) * 4
    + DocSum(SelectedEntries, "carbs", Len(SelectedEntries)) * 4
    + DocSum(SelectedEntries, "fat", Len(SelectedEntries)) * 9

Charted ==
    /\ prog = "dashboard"
    /\ dashboard.status = "ok"
    /\ SelectedEntries # <<>>

IsShare(pct, part, whole) == pct[1] * whole = part * 100 * pct[2]

\* A whole number r is the fraction part*100/whole rounded: within a half.
IsRounded(r, part, whole) ==
    /\ 2 * (r * whole - part * 100) <= whole
    /\ 2 * (part * 100 - r * whole) <= whole

\* C6: when the macro calories 4p + 4c + 9f are positive, each macro
\* percentage is its calories times 100 over the macro calories, lies
\* between 0 and 100, the three sum to 100, and rounded to whole numbers
\* they sum to 99, 100 or 101; in the analysis and in the chart.
C6_MacroPercentages ==
    /\ (Analysed /\ MacroCalories > 0) =>
          LET p == SumOver(entries, "protein", Len(entries))
              c == SumOver(entries, "carbohydrates", Len(entries))
              f == SumOver(entries, "fat", Len(entries))
              m == response.macro
              line == response.ratio_line
          IN  /\ response.kind = "analysis"
              /\ m.reported
              /\ IsShare(m.protein_percent, p * 4, MacroCalories)
              /\ IsShare(m.carb_percent, c * 4, MacroCalories)
              /\ IsShare(m.fat_percent, f * 9, MacroCalories)
              /\ \A x \in {m.protein_percent, m.carb_percent, m.fat_percent} :
                    x[2] > 0 /\ 0 <= x[1] /\ x[1] <= 100 * x[2]
              /\ m.protein_percent[1] * m.carb_percent[2] * m.fat_percent[2]
                 + m.carb_percent[1] * m.protein_percent[2] * m.fat_percent[2]
                 + m.fat_percent[1] * m.protein_percent[2] * m.carb_percent[2]
                 = 100 * m.protein_percent[2] * m.carb_percent[2] * m.fat_percent[2]
              /\ IsRounded(line[1], p * 4, MacroCalories)
              /\ IsRounded(line[2], c * 4, MacroCalories)
              /\ IsRounded(line[3], f * 9, MacroCalories)
              /\ line[1] + line[2] + line[3] \in 99..101
    /\ (Charted /\ ChartCalories > 0) =>
          LET p == DocSum(SelectedEntries, "protein", Len(SelectedEntries))
              c == DocSum(SelectedEntries, "carbs", Len(SelectedEntries))
              f == DocSum(SelectedEntries, "fat", Len(SelectedEntries))
              pct == dashboard.chart.pct
          IN  /\ ~dashboard.chart.raised
              /\ IsRounded(pct[1], p * 4, ChartCalories)
              /\ IsRounded(pct[2], c * 4, ChartCalories)
              /\ IsRounded(pct[3], f * 9, ChartCalories)
              /\ \A i \in 1..3 : pct[i] \in 0..100
              /\ pct[1] + pct[2] + pct[3] \in 99..101

\* C6's case: protein, carbohydrates and fat of 1 g each: 4/17, 4/17 and
\* 9/17 of the macro calories, which round to 24, 24 and 53.
C6_Witness ==
    /\ Analysed
    /\ response.kind = "analysis"
    /\ MacroCalories = 17
    /\ response.ratio_line = <<24, 24, 53>>

\* The bucket of an hour, from the four intervals of the statement.
BucketOfHour(h) ==
    CHOOSE b \in {"Breakfast", "Lunch", "Snacks", "Dinner"} :
        \/ b = "Breakfast" /\ 0 <= h /\ h < 10
        \/ b = "Lunch" /\ 10 <= h /\ h < 14
        \/ b = "Snacks" /\ 14 <= h /\ h < 18
        \/ b = "Dinner" /\ 18 <= h /\ h < 24

EntriesOfBucket(b) ==
    { i \in 1..Len(entries) : BucketOfHour(entries[i].timestamp.hour) = b }

ItemsOfMeal(b) ==
    IF \E x \in 1..Len(response.meals) : response.meals[x].meal = b
    THEN response.meals[CHOOSE x \in 1..Len(response.meals) :
                            response.meals[x].meal = b].items
    ELSE <<>>

\* C7: every entry is in exactly one meal bucket, the one of the hour of its
\* timestamp: [0,10) Breakfast, [10,14) Lunch, [14,18) Snacks, [18,24)
\* Dinner, whatever its minutes and seconds.
C7_BucketByHour ==
    Analysed =>
        /\ response.kind = "analysis"
        /\ \A x, y \in 1..Len(response.meals) :
              response.meals[x].meal = response.meals[y].meal => x = y
        /\ \A b \in {"Breakfast", "Lunch", "Snacks", "Dinner"} :
              /\ Len(ItemsOfMeal(b)) = Cardinality(EntriesOfBucket(b))
              /\ \A i \in EntriesOfBucket(b) :
                    \E j \in 1..Len(ItemsOfMeal(b)) :
                       ItemsOfMeal(b)[j] = entries[i].food_item
        /\ \A x \in 1..Len(response.meals) :
              response.meals[x].meal \in {"Breakfast", "Lunch", "Snacks", "Dinner"}

\* C7's case: an entry at 09:59:59 under Breakfast and one at 10:00:00
\* under Lunch.
C7_Witness ==
    /\ Analysed
    /\ response.kind = "analysis"
    /\ Len(entries) = 2
    /\ entries[1].timestamp.hour = 9 /\ entries[1].timestamp.minute = 59
    /\ entries[2].timestamp.hour = 10 /\ entries[2].timestamp.minute = 0
    /\ response.meals = <<[meal |-> "Breakfast", items |-> <<entries[1].food_item>>],
                          [meal |-> "Lunch", items |-> <<entries[2].food_item>>]>>

DisplayOrder == <<"Breakfast", "Lunch", "Snacks", "Dinner">>

DisplayIndex(b) == CHOOSE i \in 1..4 : DisplayOrder[i] = b

\* The food names of the entries of a bucket, in the order of the entries.
RECURSIVE NamesOfBucket(_, _)
NamesOfBucket(b, n) ==
    IF n = 0 THEN <<>>
    ELSE IF BucketOfHour(entries[n].timestamp.hour) = b
         THEN Append(NamesOfBucket(b, n - 1), entries[n].food_item)
         ELSE NamesOfBucket(b, n - 1)

GoalAvailable ==
    /\ "calories_goal" \in DOMAIN user_metrics
    /\ user_metrics["calories_goal"] # None
    /\ user_metrics["calories_goal"][1] # 0

C10_ComparisonWheneverStored ==
    Analysed =>
        /\ response.kind = "analysis"
        /\ response.goal.statement # "none" <=>
              /\ "calories_goal" \in DOMAIN user_metrics
              /\ user_metrics["calories_goal"] # None

\* The weekly report: the last call is get_weekly_trend; the week it is
\* about ends at the argument or, without one, at the reading of today.
TrendReported == call.fn = "get_weekly_trend"

WeekEnd == IF call.end_date = <<>> THEN today[1] ELSE call.end_date[1]

WeekDay(i) == WeekEnd - 7 + i

\* The stored value of a nutrient in a row, missing and null counting as 0.
StoredOrZero(row, k) ==
    IF k \notin DOMAIN row.nutrition_data THEN 0
    ELSE IF row.nutrition_data[k][1] = "null" THEN 0
    ELSE row.nutrition_data[k][2]

RECURSIVE StoredSumOfDay(_, _, _)
StoredSumOfDay(d, k, n) ==
    IF n = 0 THEN 0
    ELSE StoredSumOfDay(d, k, n - 1)
         + (IF food_entries[n].timestamp.day = d THEN StoredOrZero(food_entries[n], k)
            ELSE 0)

RECURSIVE WeekSum(_, _)
WeekSum(k, i) ==
    IF i = 0 THEN 0
    ELSE WeekSum(k, i - 1) + StoredSumOfDay(WeekDay(i), k, Len(food_entries))

\* C11: get_weekly_trend fetches the 7 consecutive dates end_date-6 ..
\* end_date, each once and in ascending order (end_date defaulting to
\* today); every one of them gives a day of the series, with sum 0 when it
\* has no entries or only missing or null values, so the series has 7
\* values and the averages are the sums divided by 7.
C11_SevenDaysEachOnce ==
    TrendReported =>
        /\ returned.fetched = [i \in 1..7 |-> WeekDay(i)]
        /\ returned.daily_calories =
              [i \in 1..7 |-> StoredSumOfDay(WeekDay(i), "calories", Len(food_entries))]
        /\ returned.daily_protein =
              [i \in 1..7 |-> StoredSumOfDay(WeekDay(i), "protein", Len(food_entries))]
        /\ returned.averages
        /\ returned.avg_calories = <<WeekSum("calories", 7), 7>>
        /\ returned.avg_protein = <<WeekSum("protein", 7), 7>>

\* C11's case: the week ending today, one of its days with a meal whose
\* values are all null, the last with a meal of 501 calories, the others
\* without entries.
C11_Witness ==
    /\ TrendReported
    /\ call.end_date = <<>>
    /\ \E i \in 1..Len(food_entries) :
          /\ food_entries[i].food_item = "stew"
          /\ food_entries[i].timestamp.day = WeekDay(2)
    /\ returned.daily_calories = <<0, 0, 0, 0, 0, 0, 501>>
    /\ returned.avg_calories = <<501, 7>>
    /\ returned.avg_protein = <<7, 7>>

\* C12: with delta the calories of the last day minus those of the first
\* day of the week, the report says 'increasing' iff delta > 200,
\* 'decreasing' iff delta < -200, and has no trend statement iff
\* -200 <= delta <= 200, whatever the days in between.
C12_TrendByDelta ==
    TrendReported =>
        LET delta == returned.daily_calories[7] - returned.daily_calories[1]
        IN  /\ returned.trend = "increasing" <=> delta > 200
            /\ returned.trend = "decreasing" <=> delta < -200
            /\ returned.trend = "none" <=> (-200 <= delta /\ delta <= 200)

\* C12's case: a delta of exactly -200 and a day in between of 501
\* calories, and no trend statement.
C12_Witness ==
    /\ TrendReported
    /\ returned.daily_calories[1] = 200
    /\ returned.daily_calories[7] = 0
    /\ \E i \in 2..6 : returned.daily_calories[i] = 501
    /\ returned.trend = "none"

\* C13: every weekly report has exactly one variability statement: 'varies
\* significantly' iff the largest daily calories exceed the smallest by
\* more than 500, 'consistent' otherwise, whether or not there is a trend
\* statement.
C13_OneVariabilityStatement ==
    TrendReported =>
        /\ returned.variability \in {"varies significantly", "consistent"}
        /\ returned.variability = "varies significantly" <=>
              \E i, j \in 1..7 :
                 returned.daily_calories[i] - returned.daily_calories[j] > 500

\* C13's case: a spread of exactly 500, 'consistent', together with the
\* statement of an increasing trend.
C13_Witness ==
    /\ TrendReported
    /\ returned.daily_calories[7] = 500
    /\ \A i \in 1..6 : returned.daily_calories[i] = 0
    /\ returned.variability = "consistent"
    /\ returned.trend = "increasing"

\* The other three combinations of a trend statement with a variability
\* statement.
C13_TrendAndVaries ==
    /\ TrendReported
    /\ returned.trend = "decreasing"
    /\ returned.variability = "varies significantly"

C13_NoTrendAndVaries ==
    /\ TrendReported
    /\ returned.trend = "none"
    /\ returned.variability = "varies significantly"

C13_NoTrendAndConsistent ==
    /\ TrendReported
    /\ returned.trend = "none"
    /\ returned.variability = "consistent"
    /\ returned.daily_calories[7] - returned.daily_calories[1] = 200

\* The call of parse_date, or the analyze command, has been made.
Parsed == call.fn = "parse_date" /\ call.done

Handled == call.fn = "handle_message" /\ call.done

\* Date texts that are explicit and not empty, and that neither a relative
\* expression nor a calendar date can be read from; the analyze commands
\* that carry them; the analyze commands without a date text.
Unparseable == {"not a date", "someday", "3 weeks ago", "days ago", " "}

UnparseableCommands == {"report  not a date", "analyze someday", "analyze 3 weeks ago"}

BareCommands == {"analyze", "report", " Analyze "}

\* C14: for explicit, non-empty date text that cannot be parsed, parse_date
\* returns None and the analyze command answers that it could not
\* understand the date, without fetching or analysing any entries, so it
\* never reports on today instead; the empty or absent date text is what
\* resolves to today.
C14_UnparseableIsReported ==
    /\ (Parsed /\ call.date_str \in Unparseable) => returned = <<>>
    /\ (Parsed /\ call.date_str = "") => returned = today
    /\ (Handled /\ call.message \in UnparseableCommands) =>
          /\ returned.date = <<>>
          /\ response.kind = "date_not_understood"
          /\ returned.fetched_date = <<>>
          /\ entries = <<>>
    /\ (Handled /\ call.message \in BareCommands) => returned.fetched_date = today

\* C14's case: "report  not a date" on the day that has a meal logged.
C14_Witness ==
    /\ Handled
    /\ call.message = "report  not a date"
    /\ returned.date_str = "not a date"
    /\ \E i \in 1..Len(food_entries) : food_entries[i].date = today[2]
    /\ response.kind = "date_not_understood"
    /\ returned.fetched_date = <<>>

\* What the texts given to parse_date say, case and surrounding whitespace
\* apart.
SaysToday == {"today", "now", " Today ", "NOW"}

SaysYesterday == {"yesterday", "last day", "Last Day"}

SaysTomorrow == {"tomorrow", "\tTomorrow"}

SaysThisWeek == {"this week", "This Week"}

SaysLastWeek == {"last week", "LAST WEEK "}

SaysDaysAgo ==
    { <<"0 days ago", 0>>, <<"1 days ago", 1>>, <<"3 days ago", 3>>,
      <<" 3 Days Ago", 3>>, <<"10 days ago", 10>>, <<"738885 days ago", 738885>>,
      <<"738892 days ago", 738892>>, <<"1000000 days ago", 1000000>> }

\* Day 738886 is Monday 2024-01-01: the weekday of day n, Monday being 0.
WeekdayOf(n) == (n - 738886) % 7

\* The most recent Monday on or before day n.
MondayOnOrBefore(n) == CHOOSE m \in (n - 6)..n : WeekdayOf(m) = 0

\* C15: for every value of today, parse_date resolves, case and
\* surrounding whitespace apart, 'today'/'now' to today, 'yesterday'/'last
\* day' to today-1, 'tomorrow' to today+1, 'this week' to the most recent
\* Monday on or before today, 'last week' to the Monday 7 days before that
\* one, and '<N> days ago' to today-N for every N >= 0.
C15_RelativeExpressions ==
    Parsed =>
        /\ call.date_str \in SaysToday => returned = today
        /\ call.date_str \in SaysYesterday => returned = <<"date", today[2] - 1>>
        /\ call.date_str \in SaysTomorrow => returned = <<"date", today[2] + 1>>
        /\ call.date_str \in SaysThisWeek =>
              returned = <<"date", MondayOnOrBefore(today[2])>>
        /\ call.date_str \in SaysLastWeek =>
              returned = <<"date", MondayOnOrBefore(today[2]) - 7>>
        /\ \A said \in SaysDaysAgo :
              call.date_str = said[1] => returned = <<"date", today[2] - said[2]>>

\* The same for the N up to 10 of the model and for the N that takes a
\* Monday back to date.min.
C15_RelativeExpressionsInRange ==
    Parsed =>
        /\ call.date_str \in SaysToday => returned = today
        /\ call.date_str \in SaysYesterday => returned = <<"date", today[2] - 1>>
        /\ call.date_str \in SaysTomorrow => returned = <<"date", today[2] + 1>>
        /\ call.date_str \in SaysThisWeek =>
              returned = <<"date", MondayOnOrBefore(today[2])>>
        /\ call.date_str \in SaysLastWeek =>
              returned = <<"date", MondayOnOrBefore(today[2]) - 7>>
        /\ \A said \in SaysDaysAgo :
              (call.date_str = said[1] /\ said[2] < today[2]) =>
                  returned = <<"date", today[2] - said[2]>>

\* What the texts say of a weekday.
SaysLast ==
    { <<"last monday", 0>>, <<"last tuesday", 1>>, <<"last wednesday", 2>>,
      <<"last thursday", 3>>, <<"last friday", 4>>, <<"last saturday", 5>>,
      <<"last sunday", 6>>, <<" last SUNDAY", 6>> }

SaysNext ==
    { <<"next monday", 0>>, <<"next tuesday", 1>>, <<"next wednesday", 2>>,
      <<"next thursday", 3>>, <<"next friday", 4>>, <<"next saturday", 5>>,
      <<"next sunday", 6>>, <<"Next Friday ", 4>> }

\* C16: for every value of today and every weekday w, parse_date('last
\* <w>') is a date d on weekday w with 1 <= today - d <= 7 and
\* parse_date('next <w>') is a date d on weekday w with 1 <= d - today <=
\* 7; when today is itself weekday w the distance is 7, never 0.
C16_LastAndNextWeekday ==
    Parsed =>
        /\ \A said \in SaysLast :
              call.date_str = said[1] =>
                  /\ Len(returned) = 2
                  /\ returned[1] = "date"
                  /\ WeekdayOf(returned[2]) = said[2]
                  /\ 1 <= today[2] - returned[2]
                  /\ today[2] - returned[2] <= 7
                  /\ WeekdayOf(today[2]) = said[2] => today[2] - returned[2] = 7
        /\ \A said \in SaysNext :
              call.date_str = said[1] =>
                  /\ Len(returned) = 2
                  /\ returned[1] = "date"
                  /\ WeekdayOf(returned[2]) = said[2]
                  /\ 1 <= returned[2] - today[2]
                  /\ returned[2] - today[2] <= 7
                  /\ WeekdayOf(today[2]) = said[2] => returned[2] - today[2] = 7

\* C16's case: 'last monday' on a Monday is the Monday of the week before.
C16_Witness ==
    /\ Parsed
    /\ call.date_str = "last monday"
    /\ today = <<"date", 738886>>
    /\ returned = <<"date", 738879>>

\* Texts, read character by character.
Has(s, p) == \E i \in 1..(Len(s) - Len(p) + 1) : SubSeq(s, i, i + Len(p) - 1) = p

StartsWith(s, p) == Len(p) <= Len(s) /\ SubSeq(s, 1, Len(p)) = p

IsSpaceAt(s, i) == SubSeq(s, i, i) \in {" ", "\t", "\n"}

\* The number of whitespace-delimited tokens: the places where one starts.
TokenCount(s) ==
    Cardinality({ i \in 1..Len(s) : ~IsSpaceAt(s, i) /\ (i = 1 \/ IsSpaceAt(s, i - 1)) })

EndsInQuestionMark(s) == Len(s) >= 1 /\ SubSeq(s, Len(s), Len(s)) = "?"

\* y is x without the whitespace around it.
Trimmed(x, y) ==
    \/ y = "" /\ \A k \in 1..Len(x) : IsSpaceAt(x, k)
    \/ \E i \in 1..Len(x), j \in 1..Len(x) :
          /\ i <= j
          /\ y = SubSeq(x, i, j)
          /\ ~IsSpaceAt(x, i)
          /\ ~IsSpaceAt(x, j)
          /\ \A k \in 1..Len(x) : (k < i \/ k > j) => IsSpaceAt(x, k)

\* The messages of the model that have capitals, in lower case.
Lowercased(m) ==
    CASE m = "Is it LATE?" -> "is it late?"
      [] m = "THIS AFTERNOON?" -> "this afternoon?"
      [] m = "I ATE?" -> "i ate?"
      [] OTHER -> m

FoodChecked == call.fn = "is_food_entry" /\ call.done

HasMealKeyword(m) ==
    \E k \in {"ate", "had", "consumed", "eat", "having", "drinking", "drank", "lunch",
              "dinner", "breakfast", "snack", "meal", "food", "calories"} : Has(m, k)

HasFoodPattern(m) ==
    \E p \in {"i ate", "i had", "i consumed", "for breakfast", "for lunch",
              "for dinner", "for snack", "today", "this morning", "this afternoon",
              "this evening"} : Has(m, p)

\* C17: is_food_entry is a cascade in which the first rule that matches
\* decides: it returns false if and only if the lowercased message has
\* none of the 14 meal keywords, matches none of the three patterns, and
\* has 15 or more whitespace-delimited tokens or ends in '?'; otherwise it
\* returns true.
C17_FalseIffNoIndicator ==
    FoodChecked =>
        LET m == Lowercased(call.message)
        IN  /\ returned.value = FALSE <=>
                  /\ ~HasMealKeyword(m)
                  /\ ~HasFoodPattern(m)
                  /\ (TokenCount(m) >= 15 \/ EndsInQuestionMark(m))
            /\ returned.rule = "keyword" <=> HasMealKeyword(m)
            /\ returned.rule = "pattern" <=> (~HasMealKeyword(m) /\ HasFoodPattern(m))

\* C17's case: a message of exactly 15 tokens, without a keyword, a
\* pattern or a '?', is not a food entry.
C17_Witness ==
    /\ FoodChecked
    /\ TokenCount(call.message) = 15
    /\ ~HasMealKeyword(call.message)
    /\ ~HasFoodPattern(call.message)
    /\ ~EndsInQuestionMark(call.message)
    /\ returned.value = FALSE

FoodParsed == call.fn = "parse_food_input" /\ call.done

RECURSIVE Join(_, _)
Join(texts, sep) ==
    IF Len(texts) = 1 THEN texts[1]
    ELSE Join(SubSeq(texts, 1, Len(texts) - 1), sep) \o sep \o texts[Len(texts)]

\* C18: parse_food_input splits the prefix-stripped text on one kind of
\* delimiter, chosen by priority: the comma when there is one (' and ' and
\* ';' then stay inside the fragments), else the word ' and ', else the
\* semicolon, else the whole text is one item; so 'I had oatmeal, a
\* banana, and coffee' gives oatmeal, banana, and coffee.
C18_SplitByPriority ==
    FoodParsed =>
        LET text == returned.cleaned_message
        IN  /\ returned.delimiter =
                  IF Has(text, ",") THEN ","
                  ELSE IF Has(text, " and ") THEN " and "
                  ELSE IF Has(text, ";") THEN ";"
                  ELSE ""
            /\ returned.delimiter = "" => returned.split = <<text>>
            /\ returned.delimiter # "" =>
                  /\ Join(returned.split, returned.delimiter) = text
                  /\ \A i \in 1..Len(returned.split) :
                        ~Has(returned.split[i], returned.delimiter)
            /\ Len(returned.fragments) = Len(returned.split)
            /\ \A i \in 1..Len(returned.split) :
                  Trimmed(returned.split[i], returned.fragments[i])
            /\ call.message = "I had oatmeal, a banana, and coffee" =>
                  returned.items = <<"oatmeal", "banana", "and coffee">>

\* C18's case: commas, ' and ' and a semicolon in one message, split on
\* the commas only.
C18_Witness ==
    /\ FoodParsed
    /\ call.message = "rice, beans and corn; peas"
    /\ returned.delimiter = ","
    /\ returned.items = <<"rice", "beans and corn; peas">>

\* What is left of a fragment of the lists of the model after trimming,
\* removing one leading determiner and removing the meal-time qualifiers.
CleanedFragment(f) ==
    CASE f = "eggs" -> "eggs"
      [] f = "a banana" -> "banana"
      [] f = "an apple" -> "apple"
      [] f = "the" -> "the"
      [] f = "for lunch" -> ""
      [] f = "some  rice at dinner" -> "rice"
      [] f = "" -> ""

NonEmpty(texts) == SelectSeq(texts, LAMBDA t : t # "")

\* C19: the sequence parse_food_input returns has only non-empty phrases,
\* keeps the fragments in their order in the message, keeps duplicates,
\* and drops exactly the fragments that are empty after trimming, removing
\* one leading determiner and removing the meal-time qualifiers.
C19_NonEmptyInOrder ==
    FoodParsed =>
        /\ \A i \in 1..Len(returned.items) : returned.items[i] # ""
        /\ Len(returned.items) <= Len(returned.fragments)
        /\ (\A i \in 1..Len(returned.fragments) :
               returned.fragments[i] \in
                  {"eggs", "a banana", "an apple", "the", "for lunch",
                   "some  rice at dinner", ""})
           => returned.items =
                 NonEmpty([i \in 1..Len(returned.fragments) |->
                              CleanedFragment(returned.fragments[i])])

\* C19's case: the same fragment twice, a fragment that is only a
\* qualifier between them.
C19_Witness ==
    /\ FoodParsed
    /\ call.message = "eggs, for lunch, eggs"
    /\ returned.fragments = <<"eggs", "for lunch", "eggs">>
    /\ returned.items = <<"eggs", "eggs">>

\* The phrases of the four prefix patterns.
PrefixPhrases(k) ==
    CASE k = 1 -> {"i ate", "i had", "i consumed", "i eat", "i have", "i am having",
                   "i am eating"}
      [] k = 2 -> {"today", "this morning", "this afternoon", "this evening"}
      [] k = 3 -> {"for breakfast", "for lunch", "for dinner", "for snack"}
      [] k = 4 -> {"my breakfast", "my lunch", "my dinner", "my snack"}

\* C20: parse_food_input applies its four prefix patterns once each, in
\* the order self-report verb, time-of-day marker, 'for <meal>', 'my
\* <meal>', each removing only a match at the very start of the text as it
\* is then: 'i had this morning eggs' becomes 'eggs', and 'for breakfast i
\* had eggs' becomes 'i had eggs'.
C20_PrefixesOnceInOrder ==
    FoodParsed =>
        /\ Len(returned.stages) = 5
        /\ returned.cleaned_message = returned.stages[5]
        /\ \A k \in 1..4 :
              LET before == returned.stages[k]
                  after == returned.stages[k + 1]
              IN  IF \E p \in PrefixPhrases(k) : StartsWith(before, p)
                  THEN \E p \in PrefixPhrases(k) :
                          /\ StartsWith(before, p)
                          /\ Trimmed(SubSeq(before, Len(p) + 1, Len(before)), after)
                  ELSE Trimmed(before, after)
        /\ call.message = "i had this morning eggs" =>
              returned.cleaned_message = "eggs"
        /\ call.message = "for breakfast i had eggs" =>
              returned.cleaned_message = "i had eggs"

\* C20's case: 'for breakfast i had eggs', whose 'i had' leads only after
\* the third pattern and stays.
C20_Witness ==
    /\ FoodParsed
    /\ call.message = "for breakfast i had eggs"
    /\ returned.stages[3] = "for breakfast i had eggs"
    /\ returned.stages[4] = "i had eggs"
    /\ returned.items = <<"i had eggs">>

(***************************************************************************)
(* The portion extractor.                                                  *)
(***************************************************************************)
Portioned == call.fn = "extract_portion_info" /\ call.done

Phrase == call.food_item

\* The units of the statement, singular and plural.
SingularUnits ==
    {"cup", "oz", "ounce", "tbsp", "tablespoon", "tsp", "teaspoon", "g", "gram",
     "lb", "pound", "slice", "piece"}

ListedUnits ==
    SingularUnits \cup {"cups", "ounces", "tablespoons", "teaspoons", "grams",
                        "pounds", "slices", "pieces"}

\* The quantities of the phrases and their values as floats.
QuantityValue ==
    [q \in {"2", "1.5", "0.25", "10"} |->
        CASE q = "2" -> <<"float", 2, 1>>
          [] q = "1.5" -> <<"float", 3, 2>>
          [] q = "0.25" -> <<"float", 1, 4>>
          [] q = "10" -> <<"float", 10, 1>>]

FoodNames == {"rice", "brown rice"}

IsFloat(v) == Len(v) = 3

\* The phrase starts with the article, whitespace, a singular unit and
\* whitespace.
ArticleAndUnit ==
    \E a \in {"a", "an"}, u \in SingularUnits, i \in 1..Len(Phrase) :
        /\ StartsWith(Phrase, a)
        /\ i > Len(a)
        /\ \A j \in (Len(a) + 1)..i : IsSpaceAt(Phrase, j)
        /\ i + Len(u) + 1 <= Len(Phrase)
        /\ SubSeq(Phrase, i + 1, i + Len(u)) = u
        /\ IsSpaceAt(Phrase, i + Len(u) + 1)

StartsWithDigit ==
    Phrase # "" /\ \E c \in {"0", "1", "2", "3", "4", "5", "6", "7", "8", "9"} :
                        StartsWith(Phrase, c)

\* C21: extract_portion_info answers from the numeric pattern when it
\* matches (a float quantity, only for a phrase that starts with a number),
\* else from the article pattern (quantity 1, only for a phrase that starts
\* with a/an and a known singular unit token), else it returns the phrase
\* unchanged with quantity and unit both None, which is neither 0 nor '':
\* 'a cup of rice' gives ('rice', 1, 'cup'), 'an apple' gives
\* ('an apple', None, None).
C21_PatternsInOrderOrUnchanged ==
    Portioned =>
        /\ \/ IsFloat(returned[2]) /\ StartsWithDigit /\ returned[3] # None
           \/ returned[2] = Num(1) /\ ArticleAndUnit /\ ~StartsWithDigit
                /\ \E u \in SingularUnits : returned[3] = <<u>>
           \/ returned = <<Phrase, None, None>>
        /\ returned[2] # Num(0)
        /\ returned[3] # <<"">>
        /\ \A a \in {"a", "an"}, u \in SingularUnits, c \in {" of ", " "}, f \in FoodNames :
                Phrase = a \o " " \o u \o c \o f => returned = <<f, Num(1), <<u>> >>
        /\ (~StartsWithDigit /\ ~ArticleAndUnit) => returned = <<Phrase, None, None>>
        /\ Phrase = "a cup of rice" => returned = <<"rice", Num(1), <<"cup">> >>
        /\ Phrase = "an apple" => returned = <<"an apple", None, None>>

\* A phrase with a/an that is not followed by a unit has come back
\* unchanged.
C21_Witness ==
    /\ Portioned
    /\ Phrase = "an apple"
    /\ returned = <<"an apple", None, None>>

\* 'a cup of rice' has been read by the article pattern.
C21_ArticleRead ==
    /\ Portioned
    /\ Phrase = "a cup of rice"
    /\ returned = <<"rice", Num(1), <<"cup">> >>

\* C22: for every numeric quantity q, every unit of the statement's list in
\* its singular or plural form and every food, extract_portion_info of
\* '<q> <unit> of <food>' and of '<q> <unit> <food>' is
\* (<food>, float(q), <unit>).
C22_EveryListedUnit ==
    Portioned =>
        \A q \in DOMAIN QuantityValue, u \in ListedUnits, c \in {" of ", " "},
           f \in FoodNames :
            Phrase = q \o " " \o u \o c \o f => returned = <<f, QuantityValue[q], <<u>> >>

\* The units that the numeric pattern of the code names.
UnitsOfNumericPattern ==
    ListedUnits \ {"ounce", "tablespoon", "teaspoon", "gram", "pound"}

\* The statement of C22 for the units that the numeric pattern names.
C22_UnitsOfNumericPattern ==
    Portioned =>
        \A q \in DOMAIN QuantityValue, u \in UnitsOfNumericPattern, c \in {" of ", " "},
           f \in FoodNames :
            Phrase = q \o " " \o u \o c \o f => returned = <<f, QuantityValue[q], <<u>> >>

\* A number with one of the five other units comes back unchanged, without
\* quantity and unit.
C22_SingularUnitUnread ==
    Portioned =>
        \A q \in DOMAIN QuantityValue,
           u \in {"ounce", "tablespoon", "teaspoon", "gram", "pound"},
           c \in {" of ", " "}, f \in FoodNames :
            Phrase = q \o " " \o u \o c \o f => returned = <<Phrase, None, None>>

(***************************************************************************)
(* The oracle.                                                             *)
(***************************************************************************)
OracleAsked == call.fn = "get_nutrition_info" /\ call.done

SevenNutrients ==
    {"calories", "protein", "carbohydrates", "fat", "fiber", "sugar", "sodium"}

\* The transport failed or the message has no text.
TransportFailure ==
    \/ call.completion = [raised |-> "APIError"]
    \/ call.completion = [content |-> None]

ReplyText == call.completion.content.str

\* The texts of the model in which there is no JSON value to read.
UnreadableTexts ==
    { "", "   ", "I am sorry, I cannot help.", "calories: 250", "Use {braces} wisely",
      "{\"calories\": 250} and {\"calories\": 250}", "} {", "{'calories': 250}", "{",
      "{\"calories\": 250", "{}{}" }

\* The texts of the model with a JSON value that is not an object.
NotAnObject ==
    { "[1, 2]", "42", "1.5", "\"calories\"", "null", "true",
      "[\"calories\", \"protein\", \"carbohydrates\", \"fat\", \"fiber\", \"sugar\", \"sodium\"]",
      "\"calories protein carbohydrates fat fiber sugar sodium\"" }

ParseFailure ==
    ~TransportFailure /\ ReplyText \in UnreadableTexts \cup NotAnObject

HasRaised == returned # None /\ DOMAIN returned = {"raised"}

\* C23: get_nutrition_info never raises, whatever the oracle does; the
\* record it returns has all seven nutrient keys, and after a transport
\* failure or a parse failure all seven values are null.
C23_NeverRaisesSevenKeys ==
    OracleAsked =>
        /\ ~HasRaised
        /\ returned # None
        /\ SevenNutrients \subseteq DOMAIN returned
        /\ (TransportFailure \/ ParseFailure) =>
                \A k \in SevenNutrients : returned[k] = None

\* The oracle has answered with a JSON array, and the record is all null.
C23_Witness ==
    /\ OracleAsked
    /\ ~TransportFailure
    /\ ReplyText = "[1, 2]"
    /\ \A k \in SevenNutrients : returned[k] = None

\* The transport has failed, and the record is all null.
C23_TransportFailed ==
    /\ OracleAsked
    /\ TransportFailure
    /\ \A k \in SevenNutrients : returned[k] = None

\* An object with string values and missing fields has been completed.
C23_ObjectCompleted ==
    /\ OracleAsked
    /\ ~TransportFailure
    /\ ReplyText = "{\"calories\": \"250 kcal\", \"protein\": \"10.5g\", \"fat\": \"unknown\", \"sodium\": null}"
    /\ SevenNutrients \subseteq DOMAIN returned
    /\ returned["calories"] = [float |-> <<"float", 250, 1>>]
    /\ returned["fat"] = None
    /\ returned["fiber"] = None

(***************************************************************************)
(* The food entry handler.                                                 *)
(***************************************************************************)
EntryHandled == call.fn = "_process_food_entry" /\ call.done

\* The items f1..fn of the messages.
Segments ==
    [message \in { "I had oatmeal, a banana, and coffee", "rice and beans", "eggs",
                   "I ate", "eggs and eggs", "for lunch i had soup; salad" } |->
        CASE message = "I had oatmeal, a banana, and coffee" -> <<"oatmeal", "banana", "and coffee">>
          [] message = "rice and beans" -> <<"rice", "beans">>
          [] message = "eggs" -> <<"eggs">>
          [] message = "I ate" -> <<>>
          [] message = "eggs and eggs" -> <<"eggs", "eggs">>
          [] message = "for lunch i had soup; salad" -> <<"i had soup", "salad">>]

ItemCount == Len(Segments[call.message])

Item(i) == Segments[call.message][i]

OracleFailed(i) == call.replies[i].fault

AllNull(record) == \A k \in SevenNutrients : k \in DOMAIN record /\ record[k] = None

\* The rows of the table with the food and the parsed nutrition of each.
StoredItems ==
    [r \in 1..Len(food_entries) |->
        <<food_entries[r].food_item,
          [k \in DOMAIN food_entries[r].nutrition_data |->
              IF food_entries[r].nutrition_data[k] = <<"null">> THEN None
              ELSE <<food_entries[r].nutrition_data[k][2]>>]>>]

\* The items whose write the store took, with the record the oracle gave
\* for each, in the order of the items.
RECURSIVE TakenItems(_)
TakenItems(n) ==
    IF n = 0 THEN <<>>
    ELSE IF call.writable[n]
    THEN Append(TakenItems(n - 1), <<Item(n), returned[2 * n - 1].returned>>)
    ELSE TakenItems(n - 1)

\* C24: for the items f1..fn of a message, _process_food_entry calls the
\* oracle once per item in the order of the items and passes each item to
\* add_food_entry right after its own oracle call, with the record of that
\* call; an item whose oracle call failed is passed on with the all-null
\* record and the items after it are still estimated and passed on; the
\* table holds the items in this order with these records (the ones whose
\* write the store took), and the response has one line per item in the
\* same order.
C24_OncePerItemInOrder ==
    (EntryHandled /\ ItemCount > 0) =>
        /\ Len(returned) = 2 * ItemCount
        /\ \A i \in 1..ItemCount :
              /\ returned[2 * i - 1].fn = "get_nutrition_info"
              /\ returned[2 * i - 1].food_item = Item(i)
              /\ returned[2 * i].fn = "add_food_entry"
              /\ returned[2 * i].food_item = Item(i)
              /\ returned[2 * i].nutrition_data = returned[2 * i - 1].returned
              /\ OracleFailed(i) => AllNull(returned[2 * i].nutrition_data)
        /\ StoredItems = TakenItems(ItemCount)
        /\ response.kind = "added"
        /\ Len(response.all_responses) = ItemCount
        /\ \A i \in 1..ItemCount :
              StartsWith(response.all_responses[i], "Added " \o Item(i) \o " to your food log.")
        /\ response.text = Join(response.all_responses, "\n")
                                \o "\n\nIs there anything else you ate today?"

\* The oracle has failed on the first of three items, and the other two
\* are in the table after the first with its all-null record.
C24_Witness ==
    /\ EntryHandled
    /\ ItemCount = 3
    /\ OracleFailed(1) /\ ~OracleFailed(2) /\ ~OracleFailed(3)
    /\ Len(food_entries) = 3
    /\ AllNull(StoredItems[1][2])
    /\ StoredItems[2][1] = "banana" /\ ~AllNull(StoredItems[2][2])
    /\ StoredItems[3][1] = "and coffee"
    /\ Len(response.all_responses) = 3

\* The write of item i has succeeded.
Persisted(i) == returned[2 * i].returned

\* C28: the response of _process_food_entry has the line 'Added <food> to
\* your food log' for an item only if add_food_entry returned success for
\* that item.
C28_AddedOnlyIfPersisted ==
    (EntryHandled /\ ItemCount > 0) =>
        \A i \in 1..ItemCount :
            StartsWith(response.all_responses[i], "Added " \o Item(i) \o " to your food log")
                => Persisted(i)

\* The response has the line of an item exactly as many times as the item
\* was passed to add_food_entry, whatever add_food_entry returned.
C28_AddedWhateverReturned ==
    (EntryHandled /\ ItemCount > 0) =>
        \A i \in 1..ItemCount :
            StartsWith(response.all_responses[i], "Added " \o Item(i) \o " to your food log")

(***************************************************************************)
(* The SQL store and the commands that read it.                            *)
(***************************************************************************)
StoreWasRead ==
    /\ returned # None
    /\ returned.fn \in {"get_daily_entries", "_generate_analysis", "_get_today_entries"}

\* The calls of add_food_entry that succeeded while the date of the clock
\* was d, in the order they were made.
AddedOn(d) ==
    SelectSeq(call.added, LAMBDA a : a.result /\ a.now.day = d)

\* The second of the day at which a call was made or an entry is stamped.
SecondOf(t) == ((t.day * 24 + t.hour) * 60 + t.minute) * 60 + t.second

\* What an entry says of itself, and what a call says of its entry.
EntryFacts(e) == <<e.food_item, e.nutrition_data, SecondOf(e.timestamp)>>

CallFacts(a) == <<a.food_item, a.nutrition_data, SecondOf(a.now)>>

\* The clock of the calls made so far has not gone back.
ClockNotBack ==
    \A i \in 1..Len(call.added), j \in 1..Len(call.added) :
        i <= j => (SecondOf(call.added[i].now) * 1000 + call.added[i].now.ms
                    <= SecondOf(call.added[j].now) * 1000 + call.added[j].now.ms)

\* C29: after successful calls of add_food_entry under a clock that does
\* not go back, get_daily_entries(d) returns exactly the entries added
\* while the date of the clock was d, each once, in non-decreasing order of
\* timestamp, each with the food_item and the nutrition_data that were
\* passed (a null comes back as a null); the entries added on another date
\* are not in it.
C29_EntriesOfTheDay ==
    (call.fn = "add_food_entry" /\ StoreWasRead /\ returned.readable /\ ClockNotBack) =>
        LET expected == AddedOn(returned.date)
        IN  /\ Len(entries) = Len(expected)
            /\ \A i \in 1..Len(entries) :
                  Cardinality({j \in 1..Len(entries) : EntryFacts(entries[j]) = EntryFacts(entries[i])})
                    = Cardinality({j \in 1..Len(expected) : CallFacts(expected[j]) = EntryFacts(entries[i])})
            /\ \A i \in 1..Len(entries), j \in 1..Len(entries) :
                  i <= j => SecondOf(entries[i].timestamp) <= SecondOf(entries[j].timestamp)
            /\ \A i \in 1..Len(entries) : entries[i].date = returned.date

\* Entries have been added on both days, one of them with null values, and
\* the first day has been read: it has its entry and not the other.
C29_Witness ==
    /\ call.fn = "add_food_entry"
    /\ StoreWasRead
    /\ returned.readable
    /\ returned.date = 1
    /\ Len(call.added) = 2
    /\ call.added[1].result /\ call.added[2].result
    /\ call.added[1].now.day = 1 /\ call.added[2].now.day = 2
    /\ call.added[1].food_item = "stew"
    /\ Len(entries) = 1
    /\ entries[1].food_item = "stew"
    /\ \A k \in SevenNutrients : entries[1].nutrition_data[k] = None

\* Two entries of the same day have been read in the order they were
\* added.
C29_TwoOfOneDay ==
    /\ call.fn = "add_food_entry"
    /\ StoreWasRead
    /\ returned.readable
    /\ Len(entries) = 2
    /\ entries[1].food_item = "toast"
    /\ entries[2].food_item = "oatmeal"
    /\ SecondOf(entries[1].timestamp) < SecondOf(entries[2].timestamp)

CommandAnswered ==
    /\ call.fn = "add_food_entry"
    /\ returned # None
    /\ returned.fn \in {"_generate_analysis", "_get_today_entries"}

SaysNoEntries == response.kind \in {"no_entries", "no_entries_today"}

\* C26: the analyze and the today command answer 'no food entries' when
\* the date has no stored entries, and when the store cannot be read they
\* do not answer 'no food entries' but report an error.
C26_NoEntriesIsNotAnError ==
    CommandAnswered =>
        /\ (returned.readable /\ AddedOn(returned.date) = <<>>) => SaysNoEntries
        /\ ~returned.readable => (~SaysNoEntries /\ response.kind = "error")

\* The commands answer 'no food entries' whenever get_daily_entries gave
\* them nothing, the store having been read or not.
C26_UnreadableSaysNoEntries ==
    CommandAnswered =>
        /\ (returned.readable /\ AddedOn(returned.date) = <<>>) => SaysNoEntries
        /\ ~returned.readable => SaysNoEntries

\* C25 for the rows of the table: the date of a row is the calendar date
\* of its timestamp.
C25_RowsAgree ==
    \A r \in 1..Len(food_entries) : food_entries[r].date = food_entries[r].timestamp.day

(***************************************************************************)
(* The date and the timestamp of an entry.                                 *)
(***************************************************************************)
Built == call.fn = "FoodEntry" /\ call.done

\* C25: the date of every food entry is the calendar date of its
\* timestamp, for the rows add_food_entry writes at any reading of the
\* clock and for the FoodEntry objects built with the date, the timestamp,
\* both or none of them supplied.
C25_DateOfTimestamp ==
    /\ \A r \in 1..Len(food_entries) : food_entries[r].date = food_entries[r].timestamp.day
    /\ Built => returned.date = <<"date", returned.timestamp.day>>

\* A FoodEntry built with only the date, or only the timestamp, of another
\* day than the clock's has a date that is not the date of its timestamp.
C25_OneSupplied ==
    /\ Built
    /\ (call.date = None) # (call.timestamp = None)
    /\ returned.date # <<"date", returned.timestamp.day>>

\* A FoodEntry built with nothing supplied, the clock passing midnight
\* between date.today() and datetime.now().
C25_NoneSuppliedAtMidnight ==
    /\ Built
    /\ call.date = None
    /\ call.timestamp = None
    /\ returned.date # <<"date", returned.timestamp.day>>

\* A row has been written in the last second of a day.
C25_RowAtMidnight ==
    /\ call.fn = "add_food_entry"
    /\ call.done
    /\ Len(food_entries) = 1
    /\ food_entries[1].timestamp.hour = 23
    /\ food_entries[1].date = food_entries[1].timestamp.day

(***************************************************************************)
(* parse_date and exceptions.                                              *)
(***************************************************************************)
IsDateValue(v) == Len(v) = 2 /\ v[1] = "date"

\* The texts '<N> days ago' of the model whose N is not less than the
\* ordinal of any of the model's todays: today - N is before date.min.
BeforeTheFirstDate == {"738892 days ago", "1000000 days ago"}

\* C27: parse_date returns a date or None for every text and never
\* raises, also for '<N> days ago' with an N that takes today - N out of
\* the range of dates.
C27_DateOrNoneNeverRaises ==
    Parsed => (returned = None \/ IsDateValue(returned))

\* The statement of C27 for every text but '<N> days ago' with an N that
\* takes today - N out of the range of dates.
C27_DateOrNoneInRange ==
    (Parsed /\ call.date_str \notin BeforeTheFirstDate) =>
        (returned = None \/ IsDateValue(returned))

\* '<N> days ago' with such an N raises OverflowError.
C27_OutOfRangeRaises ==
    (Parsed /\ call.date_str \in BeforeTheFirstDate) => returned = <<"OverflowError">>

(***************************************************************************)
(* The monthly summary.                                                    *)
(***************************************************************************)
Summarised == call.fn = "get_monthly_summary" /\ call.done /\ call.month \in 1..12

\* The calories of the documents of the user that are stamped on a day of
\* the month asked for.
RECURSIVE CaloriesOfDay(_, _)
CaloriesOfDay(day, n) ==
    IF n = 0 THEN 0
    ELSE (IF /\ food_collection[n].user_id = call.user_id
             /\ food_collection[n].timestamp.year = call.year
             /\ food_collection[n].timestamp.month = call.month
             /\ food_collection[n].timestamp.day = day
          THEN food_collection[n].nutrition.calories[1] ELSE 0)
         + CaloriesOfDay(day, n - 1)

\* The calories the summary has for a day of the month asked for.
RECURSIVE SummaryOfDay(_, _)
SummaryOfDay(day, n) ==
    IF n = 0 THEN 0
    ELSE (IF returned[n]._id = <<call.year, call.month, day>>
          THEN returned[n].total_calories ELSE 0)
         + SummaryOfDay(day, n - 1)

LastDay ==
    IF call.month = 2 THEN (IF call.year = 2024 THEN 29 ELSE 28)
    ELSE IF call.month = 4 THEN 30
    ELSE 31

\* C30: get_monthly_summary(user, year, month) aggregates every entry of
\* the user whose timestamp lies in the month, from the first instant of
\* day 1 to the last instant of the last day, at any time of the last day,
\* for months of 28, 29, 30 and 31 days, and no entry of another month.
C30_WholeMonth ==
    Summarised =>
        /\ \A day \in 1..LastDay :
              SummaryOfDay(day, Len(returned)) = CaloriesOfDay(day, Len(food_collection))
        /\ \A g \in 1..Len(returned) :
              /\ returned[g]._id[1] = call.year
              /\ returned[g]._id[2] = call.month

\* An entry stamped on the last day of the month is in the summary only
\* when its time of day is 00:00:00.000.
AtMidnight(t) == t.hour = 0 /\ t.minute = 0 /\ t.second = 0 /\ t.ms = 0

RECURSIVE MidnightCaloriesOfDay(_, _)
MidnightCaloriesOfDay(day, n) ==
    IF n = 0 THEN 0
    ELSE (IF /\ food_collection[n].user_id = call.user_id
             /\ food_collection[n].timestamp.year = call.year
             /\ food_collection[n].timestamp.month = call.month
             /\ food_collection[n].timestamp.day = day
             /\ AtMidnight(food_collection[n].timestamp)
          THEN food_collection[n].nutrition.calories[1] ELSE 0)
         + MidnightCaloriesOfDay(day, n - 1)

\* The summary has every entry of the days before the last day, of the
\* last day the entries stamped 00:00:00.000 only, and no entry of another
\* month or user.
C30_LastDayCutAtMidnight ==
    Summarised =>
        /\ \A day \in 1..(LastDay - 1) :
              SummaryOfDay(day, Len(returned)) = CaloriesOfDay(day, Len(food_collection))
        /\ SummaryOfDay(LastDay, Len(returned))
                = MidnightCaloriesOfDay(LastDay, Len(food_collection))
        /\ \A g \in 1..Len(returned) :
              /\ returned[g]._id[1] = call.year
              /\ returned[g]._id[2] = call.month

====
